---------------------------- MODULE Spec2Model ----------------------------
(***************************************************************************)
(* Model of the mutual-fund advisor core: the name normalizer, the exact   *)
(* parent grouper, the active-scheme filter with its master-list build,    *)
(* the concurrent metrics batch driver and the loader of the parent        *)
(* representatives (app/masterlist.py, app/metrics.py,                     *)
(* app/build_parent_metrics.py).                                           *)
(*                                                                         *)
(* Text is modelled as a sequence of one-character strings, so that the    *)
(* regular-expression passes of the normalizer are computed character by   *)
(* character, as the code computes them.                                   *)
(***************************************************************************)
EXTENDS Integers, Sequences, FiniteSets, TLC

(***************************************************************************)
(* Characters and elementary string operations (Python str / re)           *)
(***************************************************************************)
UpperChars ==
    <<"A","B","C","D","E","F","G","H","I","J","K","L","M",
      "N","O","P","Q","R","S","T","U","V","W","X","Y","Z">>

LowerChars ==
    <<"a","b","c","d","e","f","g","h","i","j","k","l","m",
      "n","o","p","q","r","s","t","u","v","w","x","y","z">>

Digits == {"0","1","2","3","4","5","6","7","8","9"}

\* \w of the re module: letters, digits and the underscore
WordChars ==
    {UpperChars[i] : i \in 1..26} \cup {LowerChars[i] : i \in 1..26}
        \cup Digits \cup {"_"}

\* \s of the re module, and what str.strip() / str.split() remove
Whitespace == {" ", "\t"}

SetMin(S) == CHOOSE x \in S : \A y \in S : x <= y

Range(seq) == {seq[i] : i \in 1..Len(seq)}

\* the element of a one-element set; {e(x) : x \in {v}} evaluates v once and
\* binds its value, which keeps every intermediate text computed once
The(S) == CHOOSE x \in S : TRUE

\* str.lower() on one character
LowerChar(c) ==
    IF \E i \in 1..26 : UpperChars[i] = c
    THEN LowerChars[CHOOSE i \in 1..26 : UpperChars[i] = c]
    ELSE c

\* str.lower()
Lower(s) == [i \in 1..Len(s) |-> LowerChar(s[i])]

\* first position >= i whose character is not in C (Len(s)+1 if none): the
\* end of a greedy character-class run [C]* starting at i
RunEnd(s, i, C) ==
    CHOOSE j \in i..(Len(s) + 1) :
        /\ \A k \in i..(j - 1) : s[k] \in C
        /\ (j = Len(s) + 1 \/ s[j] \notin C)

RunLen(s, i, C) == RunEnd(s, i, C) - i

\* str.strip(): leading and trailing whitespace removed
Strip(s) ==
    The({ IF keep = {} THEN <<>>
          ELSE SubSeq(s, SetMin(keep), CHOOSE j \in keep : \A k \in keep : k <= j) :
          keep \in { {j \in 1..Len(s) : s[j] \notin Whitespace} } })

\* matches of [C]{minLen,}
ClassRunMatchOf(s, C, minLen) ==
    [i \in 1..Len(s) |->
        IF RunLen(s, i, C) >= minLen THEN RunLen(s, i, C) ELSE -1]

\* re.sub over s: m[i] is the length of the pattern's match starting at i
\* (-1 when there is none); matches are taken leftmost, non-overlapping, and
\* each is replaced by rep
ReSub(s, m, rep) ==
    LET scan[i \in 1..(Len(s) + 1)] ==
            IF i > Len(s) THEN <<>>
            ELSE IF m[i] > 0 THEN rep \o scan[i + m[i]]
            ELSE <<s[i]>> \o scan[i + 1]
    IN  scan[1]

\* re.sub(pattern, rep, s) for each pattern below: the matches, then the scan
SubClassRun(s, C, minLen, rep) ==
    The({ ReSub(s, m, rep) : m \in {ClassRunMatchOf(s, C, minLen)} })


IsWordAt(s, i) == i >= 1 /\ i <= Len(s) /\ s[i] \in WordChars

\* \b between positions i-1 and i
WordBoundary(s, i) == IsWordAt(s, i - 1) # IsWordAt(s, i)

\* the literal lit (lowercase) occurs at i, ignoring case (re.IGNORECASE)
LitAt(s, i, lit) ==
    /\ i + Len(lit) - 1 <= Len(s)
    /\ \A k \in 1..Len(lit) : LowerChar(s[i + k - 1]) = lit[k]

\* matches of \b(?:alts[1]|alts[2]|...)\b : alternatives are tried in order and
\* the first one that is followed by a word boundary wins
AltMatch(s, alts) ==
    [i \in 1..Len(s) |->
        IF ~WordBoundary(s, i) THEN -1
        ELSE The({ IF ok = {} THEN -1 ELSE Len(alts[SetMin(ok)]) :
                   ok \in { {a \in 1..Len(alts) :
                               LitAt(s, i, alts[a])
                                   /\ WordBoundary(s, i + Len(alts[a]))} } })]

SubAlternatives(s, alts, rep) ==
    The({ ReSub(s, m, rep) : m \in {AltMatch(s, alts)} })

(***************************************************************************)
(* NameNormalizer: _strip_plan_option_tokens and normalize_parent_name     *)
(***************************************************************************)
SP == <<" ">>

W_direct == <<"d","i","r","e","c","t">>
W_regular == <<"r","e","g","u","l","a","r">>
W_plan == <<"p","l","a","n">>
W_option == <<"o","p","t","i","o","n">>
W_growth == <<"g","r","o","w","t","h">>
W_idcw == <<"i","d","c","w">>
W_dividend == <<"d","i","v","i","d","e","n","d">>
W_reinvestment == <<"r","e","i","n","v","e","s","t","m","e","n","t">>
W_monthly == <<"m","o","n","t","h","l","y">>
W_institutional == <<"i","n","s","t","i","t","u","t","i","o","n","a","l">>
W_payout == <<"p","a","y","o","u","t">>
W_income == <<"i","n","c","o","m","e">>
W_distribution == <<"d","i","s","t","r","i","b","u","t","i","o","n">>
W_capital == <<"c","a","p","i","t","a","l">>
W_withdrawal == <<"w","i","t","h","d","r","a","w","a","l">>

P_payout_of_income_distribution ==
    W_payout \o SP \o <<"o","f">> \o SP \o W_income \o SP \o W_distribution

P_cum_capital_withdrawal ==
    <<"c","u","m">> \o SP \o W_capital \o SP \o W_withdrawal

\* the alternatives of the verbose IDCW/payout pattern, in the pattern's order
VerbosePhrases ==
    << P_payout_of_income_distribution \o SP \o P_cum_capital_withdrawal,
       P_payout_of_income_distribution,
       W_income \o SP \o W_distribution \o SP \o P_cum_capital_withdrawal,
       P_payout_of_income_distribution \o SP \o P_cum_capital_withdrawal
           \o SP \o <<"(">> \o W_idcw \o <<")">> >>

\* the alternatives of tokens_pattern, in the pattern's order
PlanOptionTokens ==
    << W_direct \o SP \o W_plan,
       W_regular \o SP \o W_plan,
       W_direct,
       W_regular,
       W_plan,
       W_option,
       W_growth,
       W_idcw,
       W_dividend,
       <<"d","i","v">>,
       W_dividend \o SP \o W_reinvestment,
       W_reinvestment,
       W_monthly,
       <<"q","u","a","r","t","e","r","l","y">>,
       <<"a","n","n","u","a","l">>,
       W_institutional,
       <<"i","n","s","t">>,
       <<"s","u","p","e","r">> \o SP \o W_institutional,
       <<"s","u","b","-">> \o W_plan,
       <<"s","u","b">> \o SP \o W_plan,
       <<"r","e","t","a","i","l">>,
       W_monthly \o SP \o W_idcw,
       <<"f","o","r","t","n","i","g","h","t","l","y">> \o SP \o W_idcw,
       <<"w","e","e","k","l","y">> \o SP \o W_idcw,
       W_payout,
       <<"b","o","n","u","s">> >>

\* [\/|••]+  (the bullet is written "u2022")
SeparatorGlyphs == {"/", "|", "u2022"}

BracketOpen == {"(", "[", "{"}

BracketClose == {")", "]", "}"}

\* matches of [\(\[\{][^\)\]\}]*[\)\]\}] : an opener up to the first closer after it
BracketMatch(s) ==
    [i \in 1..Len(s) |->
        IF s[i] \notin BracketOpen THEN -1
        ELSE The({ IF cl = {} THEN -1 ELSE SetMin(cl) - i + 1 :
                   cl \in { {j \in (i + 1)..Len(s) : s[j] \in BracketClose} } })]

SubBrackets(s) == The({ ReSub(s, m, SP) : m \in {BracketMatch(s)} })

\* matches of \s*-\s*
HyphenPadMatch(s) ==
    [i \in 1..Len(s) |->
        The({ IF j <= Len(s) /\ s[j] = "-"
              THEN The({ e - i : e \in {RunEnd(s, j + 1, Whitespace)} })
              ELSE -1 :
              j \in {RunEnd(s, i, Whitespace)} })]

SubHyphenPad(s) ==
    The({ ReSub(s, m, <<" ", "-", " ">>) : m \in {HyphenPadMatch(s)} })

EdgeChars == Whitespace \cup {"-", ":"}

\* matches of (^[\s\-\:]+|[\s\-\:]+$)
EdgeMatch(s) ==
    [i \in 1..Len(s) |->
        The({ IF n >= 1 /\ (i = 1 \/ i + n = Len(s) + 1) THEN n ELSE -1 :
              n \in {RunLen(s, i, EdgeChars)} })]

SubEdges(s) == The({ ReSub(s, m, <<>>) : m \in {EdgeMatch(s)} })

StripPlanOptionTokens(name) ==
    IF name = <<>> THEN <<>>
    ELSE The(
      { Strip(s9) :
        s9 \in { SubClassRun(s8, {",", ";", ":"}, 1, SP) :
        s8 \in { SubEdges(s7) :
        s7 \in { SubClassRun(s6, Whitespace, 2, SP) :
        s6 \in { SubHyphenPad(s5) :
        s5 \in { SubClassRun(s4, {"-"}, 2, <<"-">>) :
        s4 \in { SubAlternatives(s3, PlanOptionTokens, SP) :
        s3 \in { SubBrackets(s2) :
        s2 \in { SubAlternatives(s1, VerbosePhrases, SP) :
        s1 \in { SubClassRun(n0, SeparatorGlyphs, 1, <<"-">>) :
        n0 \in {name} } } } } } } } } } })

\* " ".join(s.split()): whitespace runs collapsed to one space, ends trimmed
SplitJoin(s) ==
    The({ SubClassRun(t, Whitespace, 1, SP) : t \in {Strip(s)} })

PunctChars == {".", "'", "\"", "/", "(", ")", "[", "]", ":"}

normalize_parent_name(name) ==
    The({ Strip(b4) :
          b4 \in { Lower(b3) :
          b3 \in { SplitJoin(b2) :
          b2 \in { SubClassRun(base, PunctChars, 1, SP) :
          base \in {StripPlanOptionTokens(name)} } } } })

(***************************************************************************)
(* ParentGrouper: group_variants_exact                                     *)
(***************************************************************************)
\* a Python dict is a function from its keys; d.get(k) is None off the domain
None == "None"

\* parent_norm, or the fallback when it is empty
ParentKey(name) ==
    The({ IF parent_norm = <<>> THEN Strip(Lower(name)) ELSE parent_norm :
          parent_norm \in {normalize_parent_name(name)} })

\* groups[key] = [(code, name)]: overwrite, the last writer wins
AppendToGroup_Overwrite(groups, key, code, name) ==
    [k \in DOMAIN groups \cup {key} |->
        IF k = key THEN << <<code, name>> >> ELSE groups[k]]

\* groups.setdefault(key, [(code, name)]): the first writer wins
AppendToGroup_KeepFirst(groups, key, code, name) ==
    [k \in DOMAIN groups \cup {key} |->
        IF k \in DOMAIN groups THEN groups[k] ELSE << <<code, name>> >>]

\* groups[key].append((code, name)) on a defaultdict(list)
AppendToGroup(groups, key, code, name) ==
    [k \in DOMAIN groups \cup {key} |->
        IF k = key
        THEN (IF k \in DOMAIN groups THEN groups[k] ELSE <<>>)
                 \o << <<code, name>> >>
        ELSE groups[k]]

\* the loop over code_to_name.items(), a sequence of <<code, name>> in the
\* dict's iteration order; done[i] is the groups after i entries
group_variants_exact(items) ==
    LET done[i \in 0..Len(items)] ==
            IF i = 0 THEN <<>>
            ELSE The({ AppendToGroup(g, key, items[i][1], items[i][2]) :
                       g \in {done[i - 1]}, key \in {ParentKey(items[i][2])} })
    IN  done[Len(items)]

(***************************************************************************)
(* ActiveSchemeFilter: _check_code_active and its helpers                  *)
(***************************************************************************)
NAV_FRESH_DAYS == 30

DaysPerYear == 365

SecondsPerDay == 24 * 60 * 60

\* Values of the provider's payloads.  A payload is a Python dict: a function
\* from its keys.  A field holds a string: Text(s), or DateText(at), a string
\* that pandas.to_datetime parses to the instant at (seconds, UTC).
NoneVal == [t |-> "none"]

Text(s) == [t |-> "text", v |-> s]

DateText(at) == [t |-> "date", at |-> at]

\* a provider call that raises
Raises == [t |-> "raise"]

EmptyDict == <<>>

\* d.get(k)
DictGet(d, k) == IF k \in DOMAIN d THEN d[k] ELSE NoneVal

\* bool(v) of a field value or of a dict
Truthy(v) == v # NoneVal /\ v # Text(<<>>) /\ v # EmptyDict

\* a or b
PyOr(a, b) == IF Truthy(a) THEN a ELSE b

\* str(v) of a field value
StrOf(v) == IF v.t = "text" THEN v.v ELSE <<"d","a","t","e">>

\* k in s
Contains(s, k) ==
    \E i \in 1..(Len(s) - Len(k) + 1) : SubSeq(s, i, i + Len(k) - 1) = k

K_closed_ended == <<"c","l","o","s","e","d"," ","e","n","d","e","d">>
K_close_ended == <<"c","l","o","s","e"," ","e","n","d","e","d">>
K_close_end == <<"c","l","o","s","e","-","e","n","d">>
K_closed_end == <<"c","l","o","s","e","d","-","e","n","d">>
K_closed == <<"c","l","o","s","e","d">>
K_maturity == <<"m","a","t","u","r","i","t","y">>

closed_keywords ==
    {K_closed_ended, K_close_ended, K_close_end, K_closed_end, K_closed, K_maturity}

K_open == <<"o","p","e","n">>
K_open_ended == <<"o","p","e","n"," ","e","n","d","e","d">>
K_open_hyphen_ended == <<"o","p","e","n","-","e","n","d","e","d">>
K_etf == <<"e","t","f">>
K_exchange_traded == <<"e","x","c","h","a","n","g","e"," ","t","r","a","d","e","d">>
K_index == <<"i","n","d","e","x">>
K_liquid == <<"l","i","q","u","i","d">>
K_equity == <<"e","q","u","i","t","y">>
K_debt == <<"d","e","b","t">>
K_hybrid == <<"h","y","b","r","i","d">>
K_interval == <<"i","n","t","e","r","v","a","l">>
K_fund_of_funds == <<"f","u","n","d"," ","o","f"," ","f","u","n","d","s">>

good_keywords ==
    {K_open, K_open_ended, K_open_hyphen_ended, K_etf, K_exchange_traded, K_index,
     K_liquid, K_equity, K_debt, K_hybrid, K_interval, K_fund_of_funds}

_is_closed_scheme(scheme_type) ==
    IF ~Truthy(scheme_type) THEN FALSE
    ELSE The({ \E k \in closed_keywords : Contains(st, k) :
               st \in {Lower(StrOf(scheme_type))} })

_is_open_or_interval(scheme_type) ==
    IF ~Truthy(scheme_type) THEN FALSE
    ELSE The({ \E k \in good_keywords : Contains(st, k) :
               st \in {Lower(StrOf(scheme_type))} })

\* a group of digits in a float literal: digits, single underscores between them
DigitGroup(g) ==
    /\ g # <<>>
    /\ \A i \in 1..Len(g) : g[i] \in Digits \cup {"_"}
    /\ g[1] \in Digits /\ g[Len(g)] \in Digits
    /\ \A i \in 1..(Len(g) - 1) : ~(g[i] = "_" /\ g[i + 1] = "_")

Unsigned(u) == IF u # <<>> /\ u[1] \in {"+", "-"} THEN Tail(u) ELSE u

\* [digits][.[digits]] with at least one digit group
Mantissa(m) ==
    The({ IF dots = {} THEN DigitGroup(m)
          ELSE /\ Cardinality(dots) = 1
               /\ The({ /\ (ip # <<>> \/ fp # <<>>)
                        /\ (ip = <<>> \/ DigitGroup(ip))
                        /\ (fp = <<>> \/ DigitGroup(fp)) :
                        ip \in {SubSeq(m, 1, SetMin(dots) - 1)},
                        fp \in {SubSeq(m, SetMin(dots) + 1, Len(m))} }) :
          dots \in { {i \in 1..Len(m) : m[i] = "."} } })

\* float(text) does not raise
FloatParses(text) ==
    The({ \/ Lower(u) \in { <<"i","n","f">>, <<"n","a","n">>,
                            <<"i","n","f","i","n","i","t","y">> }
          \/ The({ IF es = {} THEN Mantissa(u)
                   ELSE /\ Mantissa(SubSeq(u, 1, SetMin(es) - 1))
                        /\ DigitGroup(Unsigned(SubSeq(u, SetMin(es) + 1, Len(u)))) :
                   es \in { {i \in 1..Len(u) : u[i] \in {"e", "E"}} } }) :
          u \in {Unsigned(Strip(text))} })

\* str.replace(",", "")
DropCommas(s) == SubClassRun(s, {","}, 1, <<>>)

_is_valid_nav(nav) ==
    IF ~Truthy(nav) THEN FALSE
    ELSE The({ FloatParses(t) : t \in {DropCommas(StrOf(nav))} })

\* _parse_date(val) is not None
DateParses(val) == Truthy(val) /\ val.t = "date"

\* the freshness window dropped: any date that parses passes
_is_nav_recent_NoWindow(last_upd, now) == DateParses(last_upd)

_is_nav_recent(last_upd, now) ==
    IF ~DateParses(last_upd) THEN FALSE
    ELSE now - last_upd.at <= NAV_FRESH_DAYS * SecondsPerDay

\* scheme_type = details.get("scheme_type") or details.get("type") or
\*               details.get("status") or ""
SchemeTypeOf(details) ==
    PyOr(DictGet(details, "scheme_type"),
         PyOr(DictGet(details, "type"),
              PyOr(DictGet(details, "status"), Text(<<>>))))

NavOf(details, quote) ==
    PyOr(DictGet(quote, "nav"),
         PyOr(DictGet(quote, "nav_val"),
              PyOr(DictGet(quote, "nav_value"), DictGet(details, "nav"))))

LastUpdatedOf(details, quote) ==
    PyOr(DictGet(quote, "last_updated"),
         PyOr(DictGet(details, "last_updated"), DictGet(details, "nav_date")))

\* mf.get_scheme_details(code) or {} inside try/except: {} when it raises
FetchOrEmpty(outcome) ==
    IF outcome = Raises \/ ~Truthy(outcome) THEN EmptyDict ELSE outcome

\* if scheme_type: if not _is_open_or_interval(scheme_type): return ... False
OpenCheckPasses(scheme_type) ==
    IF Truthy(scheme_type) THEN _is_open_or_interval(scheme_type) ELSE TRUE

\* the checks after both payloads are at hand (numeric, fresh, open-ish)
ActiveAfterFetch(details, quote, now) ==
    The({ IF ~_is_valid_nav(NavOf(details, quote)) THEN FALSE
          ELSE IF ~_is_nav_recent(LastUpdatedOf(details, quote), now) THEN FALSE
          ELSE OpenCheckPasses(scheme_type) :
          scheme_type \in {SchemeTypeOf(details)} })

\* the details are fetched whether the cache has an entry or not
DetailsStep_AlwaysFetch(code, details_cache, quote_cache, provD) ==
    [ details |-> FetchOrEmpty(provD),
      cachedQuote |-> DictGet(quote_cache, code),
      fetchedDetails |-> TRUE ]

\* first half of _check_code_active: both cache reads, then the details
\* fetch when the cache has no entry for the code
DetailsStep(code, details_cache, quote_cache, provD) ==
    The({ [ details |-> IF cachedD = NoneVal THEN FetchOrEmpty(provD) ELSE cachedD,
            cachedQuote |-> DictGet(quote_cache, code),
            fetchedDetails |-> cachedD = NoneVal ] :
          cachedD \in {DictGet(details_cache, code)} })

\* the quote of a scheme that is not closed-ended is fetched whether the
\* cache had an entry or not
QuoteStep_AlwaysFetch(details, cachedQuote, provQ, now) ==
    IF _is_closed_scheme(SchemeTypeOf(details))
    THEN [ details |-> details,
           quote |-> PyOr(cachedQuote, EmptyDict),
           is_active |-> FALSE,
           fetchedQuote |-> FALSE ]
    ELSE The({ [ details |-> details,
                 quote |-> quote,
                 is_active |-> ActiveAfterFetch(details, quote, now),
                 fetchedQuote |-> TRUE ] :
               quote \in {FetchOrEmpty(provQ)} })

\* second half: closed-ended rejection, then the quote fetch when the cache
\* had no entry, then the remaining checks
QuoteStep(details, cachedQuote, provQ, now) ==
    IF _is_closed_scheme(SchemeTypeOf(details))
    THEN [ details |-> details,
           quote |-> PyOr(cachedQuote, EmptyDict),
           is_active |-> FALSE,
           fetchedQuote |-> FALSE ]
    ELSE The({ [ details |-> details,
                 quote |-> quote,
                 is_active |-> ActiveAfterFetch(details, quote, now),
                 fetchedQuote |-> cachedQuote = NoneVal ] :
               quote \in { IF cachedQuote = NoneVal THEN FetchOrEmpty(provQ)
                           ELSE cachedQuote } })

\* d[k] = v
DictPut(d, k, v) == [x \in DOMAIN d \cup {k} |-> IF x = k THEN v ELSE d[x]]

(***************************************************************************)
(* Sample texts                                                            *)
(***************************************************************************)
T_Acme == <<"A","c","m","e">>
T_Fund == <<"F","u","n","d">>
T_Equity == <<"E","q","u","i","t","y">>
T_Direct == <<"D","i","r","e","c","t">>
T_DirectPlan == <<"D","i","r","e","c","t"," ","P","l","a","n">>
T_Growth == <<"G","r","o","w","t","h">>
T_GrowthOption == <<"G","r","o","w","t","h"," ","O","p","t","i","o","n">>
T_BracketG == <<"(","G",")">>
T_Hyphen == <<"-">>
T_SpacedHyphen == <<" ","-"," ">>
T_Comma == <<","," ">>

\* scheme names the provider's directory may hold
N_AcmeDirect == <<"A","c","m","e"," ","F","u","n","d"," ","-"," ","D","i","r","e","c","t">>
N_AcmeBracket == <<"A","c","m","e"," ","F","u","n","d"," ","(","G",")">>
N_AcmeDirectLoud == <<"A","C","M","E"," "," ","F","u","n","d"," ","-"," ","d","i","r","e","c","t">>
N_PaddedDirect == <<" ","D","i","r","e","c","t">>
N_UpperDirect == <<"D","I","R","E","C","T">>

SampleNames == {N_AcmeDirect, N_AcmeBracket, N_PaddedDirect, N_UpperDirect}

\* scheme types a details payload may carry
ST_Open == <<"O","p","e","n"," ","E","n","d","e","d"," ","S","c","h","e","m","e","s">>
ST_Close == <<"C","l","o","s","e"," ","E","n","d","e","d"," ","S","c","h","e","m","e","s">>
ST_Gilt == <<"G","i","l","t">>
ST_EquityMaturity == <<"E","q","u","i","t","y"," ","-"," ","F","i","x","e","d"," ","M","a","t","u","r","i","t","y">>
ST_Closed == <<"C","l","o","s","e","d">>

\* NAV texts
NAV_Plain == <<"1","2",".","5">>
NAV_Thousands == <<"1",",","2","3","4",".","5">>
NAV_NotAvailable == <<"N",".","A",".">>

\* instants of a last_updated date (the clock starts at 0): the last instant
\* inside the freshness window at clock 0, and one second earlier
AtWindowEdge == 0 - NAV_FRESH_DAYS * SecondsPerDay

AtJustStale == AtWindowEdge - 1

\* a text pandas.to_datetime cannot parse
DATE_Garbage == <<"n","/","a">>

\* scheme codes, in the provider's enumeration order
AllCodes == <<"101", "102", "103", "104">>

(***************************************************************************)
(* State                                                                   *)
(***************************************************************************)
VARIABLES
    \* NameNormalizer under test: two spellings of one product, as pieces
    \* (words and separators alternate), and their keys
    normPc, nameA, nameB, edits, keyA, keyB,
    \* ParentGrouper under test: two iteration orders of one code->name map
    groupPc, orderA, orderB, groupsA, groupsB,
    \* the provider: what get_scheme_details / get_scheme_quote answer per
    \* code (a payload, or Raises), and the clock (seconds)
    provDetails, provQuote, now,
    \* details_cache, quote_cache: the per-code caches a run works on
    details_cache, quote_cache,
    \* _check_code_active under test: its position and what it returned
    clsPc, checked,
    \* the provider's scheme list, a sequence of <<code, name>>
    directory,
    \* _masterlist_cache, _masterlist_meta["ts"], and the files
    \* MASTER_CACHE_FILE, DETAILS_CACHE_FILE, QUOTE_CACHE_FILE, PARENT_MASTER_FILE
    mem_cache, mem_ts, disk_master, disk_details, disk_quote, disk_parent,
    \* the call in progress: its position, its arguments, and the locals of
    \* build_master_list_cache (codes_map, the futures, processed, master)
    pc, call, codes_map, fut, processed, master,
    \* the results of the latest call, empty until it returns: the map
    \* build_master_list_cache returned, the parent_groups of build_all_exact
    ret, parent_groups,
    \* clock steps taken
    ticks,
    \* history: how the last call went, the codes a provider fetch raised for
    \* in the run, the provider invocations of the run per operation and code,
    \* the build timestamp of the map in memory, and what the latest
    \* build_all_exact enumerated and was given as master
    lastRun, raisedFor, provCalls, memBuiltAt, groupedFrom,
    \* the provider's historical NAV per code, and the NAV cache files
    provHist, navCache,
    \* compute_metrics_batch: its argument, its position, the futures (one per
    \* position of codes), results, processed and the progress lines logged
    codes, batchPc, future_map, results, bProcessed, reports,
    \* history: the NAV cache files at the start, the positions whose provider
    \* fetch raised, the positions whose worker raised
    navCache0, fetchRaised, workerRaised,
    \* choose_representative under test: its position, the entries it is
    \* given, whether a provider client is at hand, and what it returned
    repPc, entries, mf_ok, chosen,
    \* compute_metrics_for_code step by step, fetch_nav_series first: its
    \* position, the cache file it finds, what the provider answers, whether a
    \* client can be built, the wall clock, the series fetched, the cache file
    \* left, the provider calls made for history, and the record returned
    fetchPc, cache_file, hist, mftool_ok, wall, nav_out, cache_after, hist_calls,
    record,
    \* the figures of a NAV series: the position, the series, and what the
    \* performance and risk functions make of it
    metPc, nav_in, figures,
    \* the pool of a build counted by code: the position, the codes enumerated,
    \* max_workers, the workers running, the codes whose entries are in the caches
    \* in memory, the results consumed, the codes whose entries are on disk
    poolPc, poolTotal, poolWorkers, poolRunning, poolFetched, poolProcessed, poolDurable,
    \* one write of a persisted file: the position, the file, the entries of its
    \* previous and of its new content, the text on disk
    savePc, savePath, prevDoc, newDoc, onDisk,
    \* a batch counted by code: the position, len(codes), the worker calls that
    \* have ended, the results taken, the completed counts reported
    progPc, progTotal, progFinished, progProcessed, progReports,
    \* load_parent_reps: the position, PARENT_MASTER_FILE, the clock at the call,
    \* what build_all_exact would choose now, the file as the call found it, and
    \* the representatives returned together with where they came from
    loadPc, parent_master_file, loadAt, rebuilt_reps, loadedFile, parent_reps,
    \* fetch_scheme_fees_and_aum: what the provider answers for the details and
    \* the quote of the code, and how often each operation was invoked
    fee_details, fee_quote, fee_calls

normVars == <<normPc, nameA, nameB, edits, keyA, keyB>>

groupVars == <<groupPc, orderA, orderB, groupsA, groupsB>>

filterVars == <<provDetails, provQuote, now, details_cache, quote_cache>>

classifyVars == <<clsPc, checked>>

storeVars == <<mem_cache, mem_ts, disk_master, disk_details, disk_quote, disk_parent>>

runVars == <<pc, call, codes_map, fut, processed, master, ret, parent_groups>>

historyVars == <<ticks, lastRun, raisedFor, provCalls, memBuiltAt, groupedFrom>>

masterVars == <<directory, storeVars, runVars, historyVars>>

batchVars == <<provHist, navCache, codes, batchPc, future_map, results,
               bProcessed, reports, navCache0, fetchRaised, workerRaised>>

repVars == <<repPc, entries, mf_ok, chosen>>

fetchVars == <<fetchPc, cache_file, hist, mftool_ok, wall, nav_out, cache_after, hist_calls,
               record>>

metricsVars == <<metPc, nav_in, figures>>

poolVars == <<poolPc, poolTotal, poolWorkers, poolRunning, poolFetched, poolProcessed, poolDurable>>

saveVars == <<savePc, savePath, prevDoc, newDoc, onDisk>>

progressVars == <<progPc, progTotal, progFinished, progProcessed, progReports>>

loadVars == <<loadPc, parent_master_file, loadAt, rebuilt_reps, loadedFile, parent_reps>>

feeVars == <<fee_details, fee_quote, fee_calls>>

vars == <<normVars, groupVars, filterVars, classifyVars, masterVars, batchVars, repVars, fetchVars, metricsVars, poolVars, saveVars, progressVars, loadVars, feeVars>>

notNormVars == <<groupVars, filterVars, classifyVars, masterVars, batchVars, repVars, fetchVars, metricsVars, poolVars, saveVars, progressVars, loadVars, feeVars>>

notGroupVars == <<normVars, filterVars, classifyVars, masterVars, batchVars, repVars, fetchVars, metricsVars, poolVars, saveVars, progressVars, loadVars, feeVars>>

notClassifyVars == <<normVars, groupVars, masterVars, batchVars, repVars, fetchVars, metricsVars, poolVars, saveVars, progressVars, loadVars, feeVars>>

notMasterVars == <<normVars, groupVars, classifyVars, batchVars, repVars, fetchVars, metricsVars, poolVars, saveVars, progressVars, loadVars, feeVars>>

notBatchVars == <<normVars, groupVars, filterVars, classifyVars, masterVars, repVars, fetchVars, metricsVars, poolVars, saveVars, progressVars, loadVars, feeVars>>

notRepVars == <<normVars, groupVars, classifyVars, masterVars, batchVars, fetchVars, metricsVars, poolVars, saveVars, progressVars, loadVars, feeVars>>

notFetchVars == <<normVars, groupVars, filterVars, classifyVars, masterVars, batchVars, repVars, metricsVars, poolVars, saveVars, progressVars, loadVars>>

notMetricsVars == <<normVars, groupVars, filterVars, classifyVars, masterVars, batchVars, repVars, fetchVars, poolVars, saveVars, progressVars, loadVars, feeVars>>

notPoolVars == <<normVars, groupVars, filterVars, classifyVars, masterVars, batchVars, repVars, fetchVars, metricsVars, saveVars, progressVars, loadVars, feeVars>>

notSaveVars == <<normVars, groupVars, filterVars, classifyVars, masterVars, batchVars, repVars, fetchVars, metricsVars, poolVars, progressVars, loadVars, feeVars>>

notProgressVars == <<normVars, groupVars, filterVars, classifyVars, masterVars, batchVars, repVars, fetchVars, metricsVars, poolVars, saveVars, loadVars, feeVars>>

notLoadVars == <<normVars, groupVars, filterVars, classifyVars, masterVars, batchVars, repVars, fetchVars, metricsVars, poolVars, saveVars, progressVars, feeVars>>

notFeeVars == <<normVars, groupVars, filterVars, classifyVars, masterVars, batchVars, repVars, fetchVars, metricsVars, poolVars, saveVars, progressVars, loadVars>>

(***************************************************************************)
(* NameNormalizer applied to spellings that differ only in plan/option     *)
(* vocabulary, bracketed content and punctuation                           *)
(***************************************************************************)
MaxEdits == 2

Separators == {SP, T_Hyphen, T_SpacedHyphen, T_Comma}

PlanTokens == {T_Direct, T_DirectPlan, T_Growth, T_GrowthOption}

BracketGroups == {T_BracketG}

Flatten(pieces) ==
    LET cat[i \in 0..Len(pieces)] ==
            IF i = 0 THEN <<>> ELSE cat[i - 1] \o pieces[i]
    IN  cat[Len(pieces)]

InsertAfter(pieces, i, extra) ==
    SubSeq(pieces, 1, i) \o extra \o SubSeq(pieces, i + 1, Len(pieces))

\* word pieces sit at the odd positions, separators at the even ones
WordPositions(pieces) == {i \in 1..Len(pieces) : i % 2 = 1}

SeparatorPositions(pieces) == {i \in 1..Len(pieces) : i % 2 = 0}

BaseAcmeFund == <<T_Acme, SP, T_Fund>>

BaseAcmeEquityFund == <<T_Acme, SP, T_Equity, SP, T_Fund>>

\* "Acme Fund - Direct Plan - Growth Option"
ExampleLong ==
    <<T_Acme, SP, T_Fund, T_SpacedHyphen, T_DirectPlan, T_SpacedHyphen, T_GrowthOption>>

\* "Acme Fund-Direct-Growth"
ExampleShort == <<T_Acme, SP, T_Fund, T_Hyphen, T_Direct, T_Hyphen, T_Growth>>

NormIdle ==
    /\ normPc = "off"
    /\ nameA = <<>> /\ nameB = <<>> /\ edits = 0
    /\ keyA = <<>> /\ keyB = <<>>

NormInit ==
    /\ normPc = "editing"
    /\ \E pair \in { <<BaseAcmeFund, BaseAcmeFund>>,
                      <<ExampleLong, BaseAcmeFund>>,
                      <<BaseAcmeEquityFund, BaseAcmeEquityFund>> } :
          nameA = pair[1] /\ nameB = pair[2]
    /\ edits = 0
    /\ keyA = <<>> /\ keyB = <<>>

\* the second spelling gets another separator between two words
ChangeSeparator ==
    /\ normPc = "editing" /\ edits < MaxEdits
    /\ \E i \in SeparatorPositions(nameB), s \in Separators :
          /\ nameB[i] # s
          /\ nameB' = [nameB EXCEPT ![i] = s]
    /\ edits' = edits + 1
    /\ UNCHANGED <<normPc, nameA, keyA, keyB, notNormVars>>

\* the second spelling gets a plan/option token after one of its words
AddPlanToken ==
    /\ normPc = "editing" /\ edits < MaxEdits
    /\ \E i \in WordPositions(nameB), s \in Separators, t \in PlanTokens :
          nameB' = InsertAfter(nameB, i, <<s, t>>)
    /\ edits' = edits + 1
    /\ UNCHANGED <<normPc, nameA, keyA, keyB, notNormVars>>

\* the second spelling gets a bracketed qualifier after one of its words
AddBracket ==
    /\ normPc = "editing" /\ edits < MaxEdits
    /\ \E i \in WordPositions(nameB), b \in BracketGroups :
          nameB' = InsertAfter(nameB, i, <<SP, b>>)
    /\ edits' = edits + 1
    /\ UNCHANGED <<normPc, nameA, keyA, keyB, notNormVars>>

\* normalize_parent_name applied to both spellings
NormalizeBoth ==
    /\ normPc = "editing"
    /\ keyA' = The({ normalize_parent_name(n) : n \in {Flatten(nameA)} })
    /\ keyB' = The({ normalize_parent_name(n) : n \in {Flatten(nameB)} })
    /\ normPc' = "normalized"
    /\ UNCHANGED <<nameA, nameB, edits, notNormVars>>

NextNorm == ChangeSeparator \/ AddPlanToken \/ AddBracket \/ NormalizeBoth

(***************************************************************************)
(* ParentGrouper applied to two iteration orders of one code->name map     *)
(***************************************************************************)
MaxGroupCodes == 3

\* the orderings of the first n codes
Orderings(n) ==
    {o \in [1..n -> 1..n] : \A i, j \in 1..n : o[i] = o[j] => i = j}

GroupIdle ==
    /\ groupPc = "off"
    /\ orderA = <<>> /\ orderB = <<>>
    /\ groupsA = <<>> /\ groupsB = <<>>

GroupInit ==
    /\ groupPc = "input"
    /\ \E n \in 0..MaxGroupCodes :
          \E names \in [1..n -> SampleNames], o \in Orderings(n) :
              /\ orderA = [i \in 1..n |-> <<AllCodes[i], names[i]>>]
              /\ orderB = [i \in 1..n |-> <<AllCodes[o[i]], names[o[i]]>>]
    /\ groupsA = <<>> /\ groupsB = <<>>

\* group_variants_exact applied to both orders
GroupBoth ==
    /\ groupPc = "input"
    /\ groupsA' = group_variants_exact(orderA)
    /\ groupsB' = group_variants_exact(orderB)
    /\ groupPc' = "grouped"
    /\ UNCHANGED <<orderA, orderB, notGroupVars>>

NextGroup == GroupBoth

(***************************************************************************)
(* _check_code_active applied to one code, over the payloads the provider  *)
(* and the caches may hold                                                 *)
(***************************************************************************)
CheckedCode == "101"

\* a details payload: an optional scheme type under one of the three keys the
\* code reads, an optional nav, an optional date under one of its two keys
SchemeTypeFields ==
    { EmptyDict,
      [scheme_type |-> Text(ST_Open)],
      [scheme_type |-> Text(ST_Close)],
      [scheme_type |-> Text(ST_Gilt)],
      [scheme_type |-> Text(<<>>), type |-> Text(ST_EquityMaturity)],
      [status |-> Text(ST_Closed)] }

DetailsNavFields == { EmptyDict, [nav |-> Text(NAV_Plain)] }

DetailsDateFields ==
    { EmptyDict,
      [last_updated |-> DateText(0)],
      [nav_date |-> DateText(AtJustStale)] }

\* the union of two dicts with disjoint keys
Merge(d1, d2) ==
    [k \in DOMAIN d1 \cup DOMAIN d2 |-> IF k \in DOMAIN d1 THEN d1[k] ELSE d2[k]]

DetailsPayloads ==
    { Merge(a, Merge(b, c)) :
        a \in SchemeTypeFields, b \in DetailsNavFields, c \in DetailsDateFields }

QuoteNavFields ==
    { EmptyDict,
      [nav |-> Text(NAV_Plain)],
      [nav |-> Text(<<>>), nav_val |-> Text(NAV_Thousands)],
      [nav |-> Text(NAV_NotAvailable)] }

QuoteDateFields ==
    { EmptyDict,
      [last_updated |-> DateText(AtWindowEdge)],
      [last_updated |-> DateText(AtJustStale)],
      [last_updated |-> Text(DATE_Garbage)] }

QuotePayloads == { Merge(a, b) : a \in QuoteNavFields, b \in QuoteDateFields }

\* a cache is a dict code -> payload; here with no entry or one entry
NoCache == <<>>

CachedDetailsChoices ==
    { NoCache,
      [c \in {CheckedCode} |-> [scheme_type |-> Text(ST_Open)]] }

CachedQuoteChoices ==
    { NoCache,
      [c \in {CheckedCode} |-> [nav |-> Text(NAV_Plain),
                                last_updated |-> DateText(AtWindowEdge)]] }

ClassifyIdle == clsPc = "off" /\ checked = NoneVal

FilterIdle ==
    /\ provDetails = <<>> /\ provQuote = <<>> /\ now = 0
    /\ details_cache = <<>> /\ quote_cache = <<>>

ClassifyInit ==
    /\ clsPc = "ready"
    /\ checked = NoneVal
    /\ now \in {0, 1}
    /\ \E d \in DetailsPayloads \cup {Raises, NoneVal} :
          provDetails = [c \in {CheckedCode} |-> d]
    /\ \E q \in QuotePayloads \cup {Raises, NoneVal} :
          provQuote = [c \in {CheckedCode} |-> q]
    /\ details_cache \in CachedDetailsChoices
    /\ quote_cache \in CachedQuoteChoices

\* _check_code_active(mf, code, details_cache, quote_cache), start to return
CheckCodeActive ==
    /\ clsPc = "ready"
    /\ \E r1 \in {DetailsStep(CheckedCode, details_cache, quote_cache,
                              provDetails[CheckedCode])} :
       \E r2 \in {QuoteStep(r1.details, r1.cachedQuote, provQuote[CheckedCode], now)} :
          /\ details_cache' =
                 IF r1.fetchedDetails
                 THEN DictPut(details_cache, CheckedCode, r1.details)
                 ELSE details_cache
          /\ quote_cache' =
                 IF r2.fetchedQuote
                 THEN DictPut(quote_cache, CheckedCode, r2.quote)
                 ELSE quote_cache
          /\ checked' = [ code |-> CheckedCode,
                          details |-> r2.details,
                          quote |-> r2.quote,
                          is_active |-> r2.is_active,
                          fetchedDetails |-> r1.fetchedDetails,
                          fetchedQuote |-> r2.fetchedQuote ]
    /\ clsPc' = "returned"
    /\ UNCHANGED <<provDetails, provQuote, now, notClassifyVars>>

NextClassify == CheckCodeActive

(***************************************************************************)
(* ActiveMasterMap: build_master_list_cache, and build_all_exact on top    *)
(***************************************************************************)
CACHE_TTL_SECONDS == 60 * 60 * 24

MAX_WORKERS == 20

CHECKPOINT_EVERY == 200

MaxTicks == 1

\* _normalize(name): " ".join(str(name).lower().strip().split()) if name else ""
_normalize(name) ==
    IF name = <<>> THEN <<>> ELSE SplitJoin(Strip(Lower(name)))

\* the values of a dict
MapValues(m) == {m[k] : k \in DOMAIN m}

\* _masterlist_cache: None, or a map
NoMem == [some |-> FALSE, map |-> <<>>]

Mem(m) == [some |-> TRUE, map |-> m]

\* MASTER_CACHE_FILE: missing, or {"meta": {"ts": ts}, "master": m}
NoFile == [exists |-> FALSE, ts |-> 0, master |-> <<>>]

NoParentFile == [exists |-> FALSE, ts |-> 0, parent_groups |-> <<>>]

MasterFile(ts, m) == [exists |-> TRUE, ts |-> ts, master |-> m]

\* PARENT_MASTER_FILE: missing, or {"meta": {"ts": ts}, "parent_groups": g, ...}
ParentFile(ts, g) == [exists |-> TRUE, ts |-> ts, parent_groups |-> g]

\* payloads of the provider in the worlds explored
D_Open == [scheme_type |-> Text(ST_Open)]

D_Close == [scheme_type |-> Text(ST_Close)]

D_OpenWithNav ==
    [scheme_type |-> Text(ST_Open), nav |-> Text(NAV_Plain),
     last_updated |-> DateText(0)]

Q_Today == [nav |-> Text(NAV_Plain), last_updated |-> DateText(0)]

Q_JustStale == [nav |-> Text(NAV_Plain), last_updated |-> DateText(AtJustStale)]

\* what the provider answers for each code: <<details, quote>>
Answers101 ==
    { <<D_Open, Q_Today>>, <<D_Close, Q_Today>>, <<Raises, Q_Today>>,
      <<D_OpenWithNav, Raises>> }

Answers102 == { <<D_Open, Q_Today>>, <<D_Open, Q_JustStale>> }

\* two codes; their names share a parent, or share even the master key
Directories ==
    { << <<"101", N_AcmeDirect>>, <<"102", N_AcmeBracket>> >>,
      << <<"101", N_AcmeDirect>>, <<"102", N_AcmeDirectLoud>> >> }

\* the files an earlier process left behind: none, or a master map built
\* from code 101 together with the per-code caches of that build, written
\* at clock 0
EarlierMaster == [k \in {_normalize(N_AcmeDirect)} |-> "101"]

EarlierDetails == [c \in {"101"} |-> D_Open]

EarlierQuote == [c \in {"101"} |-> Q_Today]

\* a future of the pool: queued, running (details: past the details fetch),
\* done, consumed (its result taken by the as_completed loop)
Queued == [st |-> "queued", details |-> EmptyDict, quote |-> NoneVal, is_active |-> FALSE]

NoRun == [path |-> "none", force |-> FALSE, at |-> 0, builtAt |-> 0,
          memBefore |-> NoMem, diskBefore |-> NoFile]

NoGrouping == [done |-> FALSE, enumerated |-> <<>>, master |-> <<>>]

MasterIdle ==
    /\ directory = <<>>
    /\ mem_cache = NoMem /\ mem_ts = 0 /\ disk_master = NoFile
    /\ disk_details = <<>> /\ disk_quote = <<>> /\ disk_parent = NoParentFile
    /\ pc = "off" /\ call = NoneVal /\ codes_map = <<>> /\ fut = <<>>
    /\ processed = 0 /\ master = <<>> /\ ret = <<>> /\ parent_groups = <<>>
    /\ ticks = 0
    /\ lastRun = NoRun /\ raisedFor = {} /\ provCalls = <<>> /\ memBuiltAt = 0 /\ groupedFrom = NoGrouping

MasterInit ==
    /\ directory \in Directories
    /\ \E a1 \in Answers101, a2 \in Answers102 :
          /\ provDetails = [c \in {"101", "102"} |-> IF c = "101" THEN a1[1] ELSE a2[1]]
          /\ provQuote = [c \in {"101", "102"} |-> IF c = "101" THEN a1[2] ELSE a2[2]]
    /\ now = 0
    /\ details_cache = <<>> /\ quote_cache = <<>>
    /\ mem_cache = NoMem /\ mem_ts = 0
    /\ \/ disk_master = NoFile /\ disk_details = <<>> /\ disk_quote = <<>>
       \/ /\ disk_master = MasterFile(0, EarlierMaster)
          /\ disk_details = EarlierDetails
          /\ disk_quote = EarlierQuote
    /\ disk_parent = NoParentFile
    /\ pc = "idle" /\ call = NoneVal /\ codes_map = <<>> /\ fut = <<>>
    /\ processed = 0 /\ master = <<>> /\ ret = <<>> /\ parent_groups = <<>>
    /\ ticks = 0
    /\ lastRun = NoRun /\ raisedFor = {} /\ provCalls = <<>> /\ memBuiltAt = 0 /\ groupedFrom = NoGrouping

\* the entry points: build_master_list_cache itself, or build_all_exact
Vias == {"build_master_list_cache", "build_all_exact"}

\* the arguments of a call; max_workers is left at its default
CallArgs == [force : BOOLEAN, via : Vias, max_workers : {MAX_WORKERS}]

\* where control goes when build_master_list_cache returns
AfterReturn(args) == IF args.via = "build_all_exact" THEN "group" ELSE "idle"

\* if _masterlist_cache is not None and not force
MemoryHit(args) == mem_cache.some /\ ~args.force

\* if os.path.exists(MASTER_CACHE_FILE) and not force: ... if age <= TTL
DiskHit(args) ==
    /\ disk_master.exists
    /\ ~args.force
    /\ now - disk_master.ts <= CACHE_TTL_SECONDS

RunRecord(path, args, builtAt) ==
    [path |-> path, force |-> args.force, at |-> now, builtAt |-> builtAt,
     memBefore |-> mem_cache, diskBefore |-> disk_master]

\* a call starts: the results of the one before are no longer looked at
NewCall == parent_groups' = <<>> /\ groupedFrom' = NoGrouping

\* a call answered from the map in memory
CallReturnsMemory ==
    /\ pc = "idle"
    /\ \E args \in CallArgs :
          /\ MemoryHit(args)
          /\ ret' = mem_cache.map
          /\ lastRun' = RunRecord("memory", args, memBuiltAt)
          /\ pc' = AfterReturn(args)
    /\ NewCall
    /\ UNCHANGED <<filterVars, directory, storeVars, call, codes_map, fut,
                   processed, master, ticks, raisedFor, provCalls, memBuiltAt,
                   notMasterVars>>

\* a call answered from the master file
CallReturnsDisk ==
    /\ pc = "idle"
    /\ \E args \in CallArgs :
          /\ ~MemoryHit(args) /\ DiskHit(args)
          /\ mem_cache' = Mem(disk_master.master)
          /\ memBuiltAt' = disk_master.ts
          /\ ret' = disk_master.master
          /\ lastRun' = RunRecord("disk", args, disk_master.ts)
          /\ pc' = AfterReturn(args)
    /\ NewCall
    /\ UNCHANGED <<filterVars, directory, mem_ts, disk_master, disk_details,
                   disk_quote, disk_parent, call, codes_map, fut, processed,
                   master, ticks, raisedFor, provCalls, notMasterVars>>

\* a call that goes on to build: it loads the per-code caches
CallStartsBuild ==
    /\ pc = "idle"
    /\ \E args \in CallArgs :
          /\ ~MemoryHit(args) /\ ~DiskHit(args)
          /\ call' = args
          /\ lastRun' = RunRecord("building", args, 0)
    /\ details_cache' = disk_details
    /\ quote_cache' = disk_quote
    /\ raisedFor' = {} /\ provCalls' = <<>>
    /\ pc' = "enumerate"
    /\ ret' = <<>>
    /\ NewCall
    /\ UNCHANGED <<provDetails, provQuote, now, directory, storeVars, codes_map,
                   fut, processed, master, ticks, memBuiltAt, notMasterVars>>

\* build_master_list_cache returns: its locals are gone
LocalsDropped ==
    /\ call' = NoneVal
    /\ details_cache' = <<>> /\ quote_cache' = <<>>
    /\ codes_map' = <<>> /\ fut' = <<>>
    /\ processed' = 0 /\ master' = <<>>

\* mf.get_scheme_codes() raises
EnumerateRaises ==
    /\ pc = "enumerate"
    /\ ret' = IF mem_cache.some /\ DOMAIN mem_cache.map # {}
              THEN mem_cache.map ELSE <<>>
    /\ lastRun' = [lastRun EXCEPT !.path = "enum_failed"]
    /\ pc' = AfterReturn(call)
    /\ LocalsDropped
    /\ UNCHANGED <<provDetails, provQuote, now, directory, storeVars,
                   parent_groups, ticks, raisedFor, provCalls, memBuiltAt, groupedFrom,
                   notMasterVars>>

CodesOf(listing) == {listing[i][1] : i \in 1..Len(listing)}

NameOf(listing, code) ==
    listing[CHOOSE i \in 1..Len(listing) : listing[i][1] = code][2]

\* mf.get_scheme_codes() returns: nothing, or the scheme list; the pool is
\* set up with one future per code
EnumerateReturns ==
    /\ pc = "enumerate"
    /\ \E listing \in {<<>>, directory} :
          /\ codes_map' = listing
          /\ fut' = [c \in CodesOf(listing) |-> Queued]
    /\ master' = <<>>
    /\ processed' = 0
    /\ pc' = "pool"
    /\ UNCHANGED <<filterVars, directory, storeVars, call, ret, parent_groups,
                   historyVars, notMasterVars>>

\* how often an operation of the provider has been invoked for a code
Calls(calls, op, c) == IF <<op, c>> \in DOMAIN calls THEN calls[<<op, c>>] ELSE 0

\* one more invocation of mf.get_scheme_details / mf.get_scheme_quote
Called(calls, op, c) == DictPut(calls, <<op, c>>, Calls(calls, op, c) + 1)

Running == {c \in DOMAIN fut : fut[c].st = "details"}

\* a worker thread starts on code c: _check_code_active up to the scheme type
WorkerDetails(c) ==
    /\ pc = "pool"
    /\ fut[c].st = "queued"
    /\ Cardinality(Running) < call.max_workers
    /\ \E r1 \in {DetailsStep(c, details_cache, quote_cache, provDetails[c])} :
          /\ details_cache' =
                 IF r1.fetchedDetails THEN DictPut(details_cache, c, r1.details)
                 ELSE details_cache
          /\ raisedFor' =
                 IF r1.fetchedDetails /\ provDetails[c] = Raises
                 THEN raisedFor \cup {c} ELSE raisedFor
          /\ provCalls' = IF r1.fetchedDetails THEN Called(provCalls, "details", c)
                          ELSE provCalls
          /\ fut' = [fut EXCEPT ![c] =
                        [st |-> "details", details |-> r1.details,
                         quote |-> r1.cachedQuote, is_active |-> FALSE]]
    /\ UNCHANGED <<provDetails, provQuote, now, quote_cache, directory, storeVars,
                   pc, call, codes_map, processed, master, ret, parent_groups,
                   ticks, lastRun, memBuiltAt, groupedFrom, notMasterVars>>

\* the worker on code c runs to its return
WorkerQuote(c) ==
    /\ pc = "pool"
    /\ fut[c].st = "details"
    /\ \E r2 \in {QuoteStep(fut[c].details, fut[c].quote, provQuote[c], now)} :
          /\ quote_cache' =
                 IF r2.fetchedQuote THEN DictPut(quote_cache, c, r2.quote)
                 ELSE quote_cache
          /\ raisedFor' =
                 IF r2.fetchedQuote /\ provQuote[c] = Raises
                 THEN raisedFor \cup {c} ELSE raisedFor
          /\ provCalls' = IF r2.fetchedQuote THEN Called(provCalls, "quote", c)
                          ELSE provCalls
          /\ fut' = [fut EXCEPT ![c] =
                        [st |-> "done", details |-> r2.details,
                         quote |-> r2.quote, is_active |-> r2.is_active]]
    /\ UNCHANGED <<provDetails, provQuote, now, details_cache, directory,
                   storeVars, pc, call, codes_map, processed, master, ret,
                   parent_groups, ticks, lastRun, memBuiltAt, groupedFrom,
                   notMasterVars>>

\* every consumed code is put in the map, active or not
Consume_KeepsEvery(c) ==
    /\ pc = "pool"
    /\ fut[c].st = "done"
    /\ processed' = processed + 1
    /\ master' = IF TRUE
                 THEN DictPut(master, _normalize(NameOf(codes_map, c)), c)
                 ELSE master
    /\ IF processed' % CHECKPOINT_EVERY = 0
       THEN disk_details' = details_cache /\ disk_quote' = quote_cache
       ELSE UNCHANGED <<disk_details, disk_quote>>
    /\ fut' = [fut EXCEPT ![c].st = "consumed"]
    /\ UNCHANGED <<filterVars, directory, mem_cache, mem_ts, disk_master,
                   disk_parent, pc, call, codes_map, ret, parent_groups,
                   historyVars, notMasterVars>>

\* one turn of the as_completed loop, on the finished future of code c
Consume(c) ==
    /\ pc = "pool"
    /\ fut[c].st = "done"
    /\ processed' = processed + 1
    /\ master' = IF fut[c].is_active
                 THEN DictPut(master, _normalize(NameOf(codes_map, c)), c)
                 ELSE master
    /\ IF processed' % CHECKPOINT_EVERY = 0
       THEN disk_details' = details_cache /\ disk_quote' = quote_cache
       ELSE UNCHANGED <<disk_details, disk_quote>>
    /\ fut' = [fut EXCEPT ![c].st = "consumed"]
    /\ UNCHANGED <<filterVars, directory, mem_cache, mem_ts, disk_master,
                   disk_parent, pc, call, codes_map, ret, parent_groups,
                   historyVars, notMasterVars>>

\* an empty map is returned without being written or kept
FinishBuild_EmptyNotKept ==
    /\ pc = "pool"
    /\ \A c \in DOMAIN fut : fut[c].st = "consumed"
    /\ disk_master' = IF master = <<>> THEN disk_master ELSE MasterFile(now, master)
    /\ disk_details' = details_cache
    /\ disk_quote' = quote_cache
    /\ mem_cache' = IF master = <<>> THEN mem_cache ELSE Mem(master)
    /\ mem_ts' = now
    /\ memBuiltAt' = now
    /\ ret' = master
    /\ lastRun' = [lastRun EXCEPT !.path = "built"]
    /\ pc' = AfterReturn(call)
    /\ LocalsDropped
    /\ UNCHANGED <<provDetails, provQuote, now, directory, disk_parent,
                   parent_groups, ticks, raisedFor, provCalls, groupedFrom, notMasterVars>>

\* the loop is over: the master file and both caches are written, the map is
\* kept in memory and returned
FinishBuild ==
    /\ pc = "pool"
    /\ \A c \in DOMAIN fut : fut[c].st = "consumed"
    /\ disk_master' = MasterFile(now, master)
    /\ disk_details' = details_cache
    /\ disk_quote' = quote_cache
    /\ mem_cache' = Mem(master)
    /\ mem_ts' = now
    /\ memBuiltAt' = now
    /\ ret' = master
    /\ lastRun' = [lastRun EXCEPT !.path = "built"]
    /\ pc' = AfterReturn(call)
    /\ LocalsDropped
    /\ UNCHANGED <<provDetails, provQuote, now, directory, disk_parent,
                   parent_groups, ticks, raisedFor, provCalls, groupedFrom, notMasterVars>>

\* every code is grouped, whether build_master_list_cache kept it or not
ActiveCodeToName_All(listing, m) == listing

\* code_to_name = {code: name for code, name in codes_map.items()
\*                 if str(code) in set(master.values())}
ActiveCodeToName(listing, m) ==
    SelectSeq(listing, LAMBDA e : e[1] \in MapValues(m))

\* the rest of build_all_exact: it enumerates the provider itself (an
\* enumeration that raises counts as empty), keeps the codes of the master
\* map, groups them and writes the parent file
GroupActiveCodes ==
    /\ pc = "group"
    /\ \E outcome \in {"raises", "nothing", "listing"} :
       \E listing \in {IF outcome = "listing" THEN directory ELSE <<>>} :
       \E groups \in {group_variants_exact(ActiveCodeToName(listing, ret))} :
          /\ parent_groups' = groups
          /\ disk_parent' = ParentFile(now, groups)
          /\ groupedFrom' = [done |-> TRUE, enumerated |-> listing, master |-> ret]
    /\ pc' = "idle"
    /\ UNCHANGED <<filterVars, directory, mem_cache, mem_ts, disk_master,
                   disk_details, disk_quote, call, codes_map, fut, processed,
                   master, ret, ticks, lastRun, raisedFor, provCalls, memBuiltAt,
                   notMasterVars>>

\* time passes between calls: a whole TTL, or a second more
Tick ==
    /\ pc = "idle" /\ ticks < MaxTicks
    /\ \E d \in {CACHE_TTL_SECONDS, CACHE_TTL_SECONDS + 1} : now' = now + d
    /\ ticks' = ticks + 1
    /\ UNCHANGED <<provDetails, provQuote, details_cache, quote_cache, directory,
                   storeVars, runVars, lastRun, raisedFor, provCalls, memBuiltAt,
                   groupedFrom, notMasterVars>>

NextMaster ==
    \/ CallReturnsMemory
    \/ CallReturnsDisk
    \/ CallStartsBuild
    \/ EnumerateRaises
    \/ EnumerateReturns
    \/ \E c \in DOMAIN fut : WorkerDetails(c)
    \/ \E c \in DOMAIN fut : WorkerQuote(c)
    \/ \E c \in DOMAIN fut : Consume(c)
    \/ FinishBuild
    \/ GroupActiveCodes
    \/ Tick

(***************************************************************************)
(* MetricsEngine: fetch_nav_series, compute_metrics_for_code and           *)
(* compute_metrics_batch                                                   *)
(***************************************************************************)
CACHE_MAX_AGE_DAYS == 7

\* a progress line every 10 completions
ProgressEvery == 10

MaxBatchCodes == 3

BatchPool == {"101", "102", "103"}

\* a row of historical data: a date text and a NAV text, each of which
\* parses (to a day number, to a value) or does not
Row(d, v) == [date |-> d, dateOk |-> TRUE, nav |-> v, navOk |-> TRUE]

BadDateRow(v) == [date |-> 0, dateOk |-> FALSE, nav |-> v, navOk |-> TRUE]

BadNavRow(d) == [date |-> d, dateOk |-> TRUE, nav |-> 0, navOk |-> FALSE]

\* what get_scheme_historical_nav answers in one mode: it raises, or rows
HistRaises == [t |-> "raise", rows |-> <<>>]

HistRows(rows) == [t |-> "rows", rows |-> rows]

\* rows out of order with two unusable ones; a single row; nothing
RowsThree == <<Row(3, 90), Row(1, 100), BadDateRow(5), Row(2, 120), BadNavRow(4)>>

RowsOne == <<Row(1, 100)>>

\* the provider's answers for a code: in DataFrame mode and in dict mode
Healthy == [frame |-> HistRows(RowsThree), dict |-> HistRows(RowsThree)]

Failing == [frame |-> HistRaises, dict |-> HistRaises]

\* an older client: the as_Dataframe parameter raises, the dict mode works
FrameUnsupported == [frame |-> HistRaises, dict |-> HistRows(RowsThree)]

SinglePoint == [frame |-> HistRows(<<>>), dict |-> HistRows(RowsOne)]

\* a NAV cache file: missing, a series written at mtime, or a file that
\* read_parquet cannot read
NoNavFile == [exists |-> FALSE, mtime |-> 0, readable |-> FALSE, series |-> <<>>]

NavFile(mtime, series) ==
    [exists |-> TRUE, mtime |-> mtime, readable |-> TRUE, series |-> series]

CorruptNavFile(mtime, series) ==
    [exists |-> TRUE, mtime |-> mtime, readable |-> FALSE, series |-> series]

\* dropna on the values and on the index
Usable(rows) == SelectSeq(rows, LAMBDA r : r.navOk /\ r.dateOk)

\* sort_index, ascending by date
SortByDate(rows) ==
    LET sorted[i \in 0..Len(rows)] ==
            IF i = 0 THEN <<>>
            ELSE The({ SelectSeq(prev, LAMBDA r : r.date <= rows[i].date)
                           \o <<rows[i]>>
                           \o SelectSeq(prev, LAMBDA r : r.date > rows[i].date) :
                       prev \in {sorted[i - 1]} })
    IN  sorted[Len(rows)]

_nav_from_dataframe(rows) == SortByDate(Usable(rows))

\* the cache read: the index through to_datetime(errors="coerce"), dropna on
\* the values only, sort_index (rows without a date go last)
CacheLoad(rows) ==
    The({ SortByDate(SelectSeq(valued, LAMBDA r : r.dateOk))
              \o SelectSeq(valued, LAMBDA r : ~r.dateOk) :
          valued \in {SelectSeq(rows, LAMBDA r : r.navOk)} })

_nav_from_dict(rows) == SortByDate(Usable(rows))

\* age_days = (datetime.now() - mtime).days
_cache_is_fresh(file, clock) ==
    /\ file.exists
    /\ (clock - file.mtime) \div SecondsPerDay <= CACHE_MAX_AGE_DAYS

\* the cache served whether or not the file can be read
CacheServes_Unread(file, clock) ==
    _cache_is_fresh(file, clock) /\ Len(CacheLoad(file.series)) > 1

\* the cache is served: the file is fresh, it can be read, and more than one
\* point is left
CacheServes(file, clock) ==
    _cache_is_fresh(file, clock) /\ file.readable /\ Len(CacheLoad(file.series)) > 1

\* what fetch_nav_series came to: it raised (the client could not be built)
\* or returned a series; the cache file afterwards; whether the provider's
\* fetch raised
Fetched(raised, series, file, providerRaised) ==
    [raised |-> raised, series |-> series, file |-> file,
     providerRaised |-> providerRaised]

\* the dict-mode failure let through to the caller
fetch_nav_series_Propagates(file, answer, clientOk, clock) ==
    The({ IF CacheServes(file, clock)
          THEN Fetched(FALSE, cached, file, FALSE)
          ELSE IF ~clientOk THEN Fetched(TRUE, <<>>, file, FALSE)
          ELSE The({ IF byFrame = <<>> /\ answer.dict.t = "raise"
                     THEN Fetched(TRUE, <<>>, file, TRUE)
                     ELSE The({ IF nav_series = <<>>
                                THEN Fetched(FALSE, <<>>, file, FALSE)
                                ELSE Fetched(FALSE, nav_series,
                                             NavFile(clock, nav_series), FALSE) :
                                nav_series \in
                                    { IF byFrame # <<>> THEN byFrame
                                      ELSE _nav_from_dict(answer.dict.rows) } }) :
                     byFrame \in { IF answer.frame.t = "raise" THEN <<>>
                                   ELSE _nav_from_dataframe(answer.frame.rows) } }) :
          cached \in {CacheLoad(file.series)} })

\* fetch_nav_series(code): the fresh cache file if it holds more than one
\* point; else the provider, DataFrame mode first and dict mode if that gave
\* nothing, every failure of the provider ending in an empty series
fetch_nav_series(file, answer, clientOk, clock) ==
    The({ IF CacheServes(file, clock)
          THEN Fetched(FALSE, cached, file, FALSE)
          ELSE IF ~clientOk THEN Fetched(TRUE, <<>>, file, FALSE)
          ELSE The({ IF byFrame = <<>> /\ answer.dict.t = "raise"
                     THEN Fetched(FALSE, <<>>, file, TRUE)
                     ELSE The({ IF nav_series = <<>>
                                THEN Fetched(FALSE, <<>>, file, FALSE)
                                ELSE Fetched(FALSE, nav_series,
                                             NavFile(clock, nav_series), FALSE) :
                                nav_series \in
                                    { IF byFrame # <<>> THEN byFrame
                                      ELSE _nav_from_dict(answer.dict.rows) } }) :
                     byFrame \in { IF answer.frame.t = "raise" THEN <<>>
                                   ELSE _nav_from_dataframe(answer.frame.rows) } }) :
          cached \in {CacheLoad(file.series)} })

\* numbers: a float that is a ratio of integers is [t |-> "num"] in lowest
\* terms with a positive denominator; NaN is NaN
RECURSIVE Gcd(_, _)
Gcd(a, b) == IF b = 0 THEN a ELSE Gcd(b, a % b)

Abs(a) == IF a < 0 THEN 0 - a ELSE a

Num(n, d) ==
    The({ [t |-> "num", n |-> (IF d < 0 THEN 0 - n ELSE n) \div g, d |-> Abs(d) \div g] :
          g \in {Gcd(Abs(n), Abs(d))} })

NaN == [t |-> "nan"]

\* a <= b of two num values
NumLeq(a, b) == a.n * b.d <= b.n * a.d

\* base ** exponent - 1.0, kept as the two ratios
PowMinusOne(base, exponent) == [t |-> "pow", base |-> base, exp |-> exponent]

\* a float computed from a series by a square root (a standard deviation),
\* kept as the name of the figure and the values it is computed from
Real(figure, values) == [t |-> "real", is |-> figure, of |-> values]

\* nav.pct_change().dropna(): the change of each price on the one before;
\* 0/0 is NaN and is dropped, x/0 is inf and stays
Inf == [t |-> "inf"]

PctChange(prev, cur) ==
    IF prev = 0 THEN (IF cur = 0 THEN NaN ELSE Inf) ELSE Num(cur - prev, prev)

nav_to_returns(nav) ==
    IF Len(nav) < 2 THEN <<>>
    ELSE SelectSeq([i \in 1..(Len(nav) - 1) |-> PctChange(nav[i].nav, nav[i + 1].nav)],
                   LAMBDA r : r # NaN)

\* the growth raised to the years elapsed, not to their inverse
compute_periodic_returns_ToYears(nav) ==
    IF Len(nav) < 2 THEN NoneVal
    ELSE IF nav[1].nav <= 0 THEN NoneVal
    ELSE IF nav[Len(nav)].date - nav[1].date <= 0 THEN NoneVal
    ELSE PowMinusOne(Num(nav[Len(nav)].nav, nav[1].nav),
                     Num(nav[Len(nav)].date - nav[1].date, DaysPerYear))

\* compute_periodic_returns(nav): years = days / 365.0 and
\* (end_val / start_val) ** (1.0 / years) - 1.0
compute_periodic_returns(nav) ==
    IF Len(nav) < 2 THEN NoneVal
    ELSE IF nav[1].nav <= 0 THEN NoneVal
    ELSE IF nav[Len(nav)].date - nav[1].date <= 0 THEN NoneVal
    ELSE The({ PowMinusOne(Num(nav[Len(nav)].nav, nav[1].nav), Num(years.d, years.n)) :
               years \in {Num(nav[Len(nav)].date - nav[1].date, DaysPerYear)} })

\* rolling_return(nav, window_days)
rolling_return(nav, window_days) ==
    IF Len(nav) < 2 THEN NoneVal
    ELSE The({ IF Len(window_nav) < 2 THEN NoneVal
               ELSE compute_periodic_returns(window_nav) :
               window_nav \in
                   { SelectSeq(nav, LAMBDA r :
                         r.date >= nav[Len(nav)].date - window_days) } })

\* returns.std(ddof=1) is 0 when all the returns are one value
AllEqual(values) == \A i, j \in 1..Len(values) : values[i] = values[j]

annualized_volatility(returns) ==
    IF Len(returns) < 2 THEN NoneVal
    ELSE IF AllEqual(returns) /\ returns[1] # Inf THEN Num(0, 1)
    ELSE Real("volatility", returns)

annualized_return_from_returns(returns) ==
    IF Len(returns) < 2 THEN NoneVal ELSE Real("mean", returns)

\* the running maximum of the prices up to position i
RunningMax(nav, i) == CHOOSE m \in {nav[j].nav : j \in 1..i} :
                          \A j \in 1..i : nav[j].nav <= m

\* (nav / running_max) - 1.0 at position i; 0/0 is NaN
DrawdownAt(nav, i) ==
    The({ IF m = 0 THEN NaN ELSE Num(nav[i].nav - m, m) : m \in {RunningMax(nav, i)} })

\* the least of a non-empty set of num values
NumMin(S) == CHOOSE x \in S : \A y \in S : NumLeq(x, y)

\* the drawdown measured from the first price, not from the running peak
max_drawdown_FromFirst(nav) ==
    IF Len(nav) < 2 THEN NoneVal
    ELSE The({ IF dd = {} THEN NaN ELSE NumMin(dd) :
               dd \in { {IF nav[1].nav = 0 THEN NaN
                         ELSE Num(nav[i].nav - nav[1].nav, nav[1].nav) :
                         i \in 1..Len(nav)} \ {NaN} } })

\* max_drawdown(nav): dd.min() skips NaN
max_drawdown(nav) ==
    IF Len(nav) < 2 THEN NoneVal
    ELSE The({ IF dd = {} THEN NaN ELSE NumMin(dd) :
               dd \in { {DrawdownAt(nav, i) : i \in 1..Len(nav)} \ {NaN} } })

sharpe_ratio(returns) ==
    IF Len(returns) < 2 THEN NoneVal
    ELSE IF annualized_volatility(returns) = Num(0, 1) THEN NoneVal
    ELSE Real("sharpe", returns)

sortino_ratio(returns) ==
    IF Len(returns) < 2 THEN NoneVal
    ELSE The({ IF Len(downside) < 2 THEN NoneVal
               ELSE IF AllEqual(downside) THEN NoneVal
               ELSE Real("sortino", returns) :
               downside \in { SelectSeq(returns, LAMBDA r : r # Inf /\ r.n < 0) } })

(***************************************************************************)
(* MetricsEngine: fetch_scheme_fees_and_aum                                *)
(***************************************************************************)
\* the float a cleaned text was parsed to
FloatOf(s) == [t |-> "float", of |-> s]

\* _to_float_safe(x): commas and percent signs dropped, stripped, float()
_to_float_safe(x) ==
    IF x = NoneVal THEN NoneVal
    ELSE The({ IF s = <<>> \/ ~FloatParses(s) THEN NoneVal ELSE FloatOf(s) :
               s \in {Strip(SubClassRun(StrOf(x), {",", "%"}, 1, <<>>))} })

EXPENSE_KEYS == <<"expense_ratio", "expenseRatio", "Expense Ratio", "Expense_Ratio">>

AUM_KEYS == <<"scheme_aum", "AUM", "aum", "assets_under_management">>

\* for src in (details, quote): for k in keys: the first value that
\* _to_float_safe can read
FirstFloat(srcs, keys) ==
    The({ IF found = {} THEN NoneVal
          ELSE The({ _to_float_safe(srcs[p[1]][keys[p[2]]]) :
                     p \in { CHOOSE q \in found :
                                \A r \in found :
                                   q[1] < r[1] \/ (q[1] = r[1] /\ q[2] <= r[2]) } }) :
          found \in { { q \in (1..Len(srcs)) \X (1..Len(keys)) :
                          /\ keys[q[2]] \in DOMAIN srcs[q[1]]
                          /\ _to_float_safe(srcs[q[1]][keys[q[2]]]) # NoneVal } } })

\* the order in which the provider's payloads list their keys
PayloadKeys ==
    <<"scheme_type", "nav", "last_updated", "expense_ratio", "expenseRatio",
      "scheme_aum", "aum", "exit_load">>

\* the lowercased string values of a payload, in its order
TextValues(src) ==
    LET take[i \in 0..Len(PayloadKeys)] ==
            IF i = 0 THEN <<>>
            ELSE IF PayloadKeys[i] \in DOMAIN src /\ src[PayloadKeys[i]].t = "text"
                 THEN Append(take[i - 1], Lower(src[PayloadKeys[i]].v))
                 ELSE take[i - 1]
    IN  take[Len(PayloadKeys)]

\* " ".join(texts)
JoinWithSpace(texts) ==
    LET join[i \in 0..Len(texts)] ==
            IF i = 0 THEN <<>>
            ELSE IF i = 1 THEN texts[1]
            ELSE join[i - 1] \o <<" ">> \o texts[i]
    IN  join[Len(texts)]

K_exit == <<"e","x","i","t">>
K_load == <<"l","o","a","d">>

\* exit\s*load[^\d%]{0,15}(\d+(?:\.\d+)?)\s*%? matched at i: the group, or
\* <<>> when there is no match at i
ExitLoadAt(s, i) ==
    IF ~LitAt(s, i, K_exit) THEN <<>>
    ELSE The({
      IF ~LitAt(s, j, K_load) THEN <<>>
      ELSE The({
        IF k - (j + 4) > 15 \/ k > Len(s) \/ s[k] \notin Digits THEN <<>>
        ELSE The({
          IF d + 1 <= Len(s) /\ s[d] = "." /\ s[d + 1] \in Digits
          THEN SubSeq(s, k, RunEnd(s, d + 1, Digits) - 1)
          ELSE SubSeq(s, k, d - 1) :
          d \in {RunEnd(s, k, Digits)} }) :
        k \in {RunEnd(s, j + 4, Range(s) \ (Digits \cup {"%"}))} }) :
      j \in {RunEnd(s, i + 4, Whitespace)} })

\* re.search: the group of the leftmost match, NoneVal when none
ExitLoadSearch(s) ==
    The({ IF at = {} THEN NoneVal ELSE Text(ExitLoadAt(s, SetMin(at))) :
          at \in { {i \in 1..Len(s) : ExitLoadAt(s, i) # <<>>} } })

\* the figures fetch_scheme_fees_and_aum reads from the two payloads
fetch_scheme_fees_and_aum(details, quote) ==
    [exp_ratio |-> FirstFloat(<<details, quote>>, EXPENSE_KEYS),
     exit_load |-> _to_float_safe(
                      ExitLoadSearch(JoinWithSpace(TextValues(details) \o TextValues(quote)))),
     aum |-> FirstFloat(<<details, quote>>, AUM_KEYS)]

\* payloads with fee fields
T_Expense == <<"1",".","2","5","%">>
T_ExpenseBad == <<"N",".","A",".">>
T_ExpenseQuote == <<"0",".","9">>
T_Aum == <<"1",",","2","3","4",".","5">>
T_ExitLoad == <<"E","x","i","t"," ","L","o","a","d",":"," ","1","%"," ","w","i","t","h","i","n"," ","1"," ","y","e","a","r">>

D_Fees ==
    [scheme_type |-> Text(ST_Open), expense_ratio |-> Text(T_Expense),
     scheme_aum |-> Text(T_Aum), exit_load |-> Text(T_ExitLoad)]

D_BadExpense == [scheme_type |-> Text(ST_Open), expense_ratio |-> Text(T_ExpenseBad)]

Q_Fees ==
    [nav |-> Text(NAV_Plain), last_updated |-> DateText(0),
     expenseRatio |-> Text(T_ExpenseQuote), aum |-> Text(T_Aum)]

\* what the provider answers for the details and the quote of the code
FeeAnswers ==
    { <<D_Open, Q_Today>>, <<D_Fees, Q_Today>>, <<D_BadExpense, Q_Fees>>,
      <<Raises, Q_Fees>> }

\* the record compute_metrics_for_code starts from and returns on
\* insufficient data; dates are day numbers from 1, a None date is 0
InsufficientRecord(code) ==
    [scheme_code |-> code, data_points |-> 0, first_date |-> 0,
     last_date |-> 0, derived_from |-> <<>>,
     cagr |-> NoneVal, rolling_1y |-> NoneVal, rolling_3y |-> NoneVal,
     rolling_5y |-> NoneVal, volatility_annual |-> NoneVal,
     max_drawdown |-> NoneVal, sharpe |-> NoneVal, sortino |-> NoneVal,
     expense_ratio_percent |-> NoneVal, exit_load_percent |-> NoneVal,
     aum |-> NoneVal,
     scheme_details_raw |-> EmptyDict, scheme_quote_raw |-> EmptyDict,
     beta |-> NoneVal, tracking_error |-> NoneVal]

\* the record once the series was taken as sufficient: the figures computed
\* from the series, then the raw details and quote
FullRecord(code, nav, details, quote) ==
    The({ [scheme_code |-> code, data_points |-> Len(nav),
           first_date |-> nav[1].date, last_date |-> nav[Len(nav)].date,
           derived_from |-> nav,
           cagr |-> compute_periodic_returns(nav),
           rolling_1y |-> rolling_return(nav, DaysPerYear),
           rolling_3y |-> rolling_return(nav, DaysPerYear * 3),
           rolling_5y |-> rolling_return(nav, DaysPerYear * 5),
           volatility_annual |-> annualized_volatility(nav_to_returns(nav)),
           max_drawdown |-> max_drawdown(nav),
           sharpe |-> sharpe_ratio(nav_to_returns(nav)),
           sortino |-> sortino_ratio(nav_to_returns(nav)),
           expense_ratio_percent |-> fees.exp_ratio,
           exit_load_percent |-> fees.exit_load,
           aum |-> fees.aum,
           scheme_details_raw |-> details, scheme_quote_raw |-> quote,
           beta |-> NoneVal, tracking_error |-> NoneVal] :
          fees \in {fetch_scheme_fees_and_aum(details, quote)} })

\* compute_metrics_for_code(code): a record, or an exception when a provider
\* client cannot be built (in fetch_nav_series, in fetch_scheme_fees_and_aum)
compute_metrics_for_code(code, file, answer, details, quote, clientOk, clock) ==
    The({ IF f.raised
          THEN [raised |-> TRUE, record |-> NoneVal, file |-> f.file,
                providerRaised |-> f.providerRaised]
          ELSE IF Len(f.series) < 2
          THEN [raised |-> FALSE, record |-> InsufficientRecord(code),
                file |-> f.file, providerRaised |-> f.providerRaised]
          ELSE IF ~clientOk
          THEN [raised |-> TRUE, record |-> NoneVal, file |-> f.file,
                providerRaised |-> f.providerRaised]
          ELSE [raised |-> FALSE,
                record |-> FullRecord(code, f.series, FetchOrEmpty(details),
                                      FetchOrEmpty(quote)),
                file |-> f.file, providerRaised |-> f.providerRaised] :
          f \in {fetch_nav_series(file, answer, clientOk, clock)} })

\* {"scheme_code": str(c), "error": str(e)}
ErrorEntry(code) == [scheme_code |-> code, error |-> "client"]

\* lists of at most n codes
CodeLists(n) == UNION { [1..k -> BatchPool] : k \in 0..n }

NoFuture == [st |-> "none", raised |-> FALSE, record |-> NoneVal]

BatchIdle ==
    /\ provHist = <<>> /\ navCache = <<>> /\ navCache0 = <<>>
    /\ codes = <<>> /\ batchPc = "off" /\ future_map = <<>> /\ results = <<>>
    /\ bProcessed = 0 /\ reports = <<>>
    /\ fetchRaised = {} /\ workerRaised = {}

BatchInit ==
    /\ codes \in CodeLists(MaxBatchCodes)
    /\ \E h1 \in {Healthy, Failing}, h3 \in {SinglePoint, FrameUnsupported} :
          provHist = [c \in BatchPool |->
                         IF c = "101" THEN h1 ELSE IF c = "102" THEN Failing ELSE h3]
    /\ \E f2 \in {NoNavFile, NavFile(0 - CACHE_MAX_AGE_DAYS * SecondsPerDay,
                                          _nav_from_dataframe(RowsThree))} :
          navCache = [c \in BatchPool |-> IF c = "102" THEN f2 ELSE NoNavFile]
    /\ navCache0 = navCache
    /\ provDetails = [c \in BatchPool |-> D_Open]
    /\ provQuote = [c \in BatchPool |-> IF c = "103" THEN Raises ELSE Q_Today]
    /\ now = 0
    /\ details_cache = <<>> /\ quote_cache = <<>>
    /\ batchPc = "called" /\ future_map = <<>> /\ results = <<>>
    /\ bProcessed = 0 /\ reports = <<>>
    /\ fetchRaised = {} /\ workerRaised = {}

\* if total == 0: return results
ReturnEmptyBatch ==
    /\ batchPc = "called"
    /\ Len(codes) = 0
    /\ batchPc' = "returned"
    /\ UNCHANGED <<provHist, navCache, codes, future_map, results, bProcessed,
                   reports, navCache0, fetchRaised, workerRaised, notBatchVars>>

\* future_map = {ex.submit(worker, c): c for c in codes}
SubmitBatch ==
    /\ batchPc = "called"
    /\ Len(codes) > 0
    /\ future_map' = [i \in 1..Len(codes) |-> [NoFuture EXCEPT !.st = "queued"]]
    /\ batchPc' = "pool"
    /\ UNCHANGED <<provHist, navCache, codes, results, bProcessed, reports,
                   navCache0, fetchRaised, workerRaised, notBatchVars>>

\* the worker on position i runs compute_metrics_for_code to its end
RunWorker(i) ==
    /\ batchPc = "pool"
    /\ future_map[i].st = "queued"
    /\ \E clientOk \in BOOLEAN :
       \E r \in {compute_metrics_for_code(codes[i], navCache[codes[i]],
                                          provHist[codes[i]], provDetails[codes[i]],
                                          provQuote[codes[i]], clientOk, now)} :
          /\ navCache' = [navCache EXCEPT ![codes[i]] = r.file]
          /\ future_map' = [future_map EXCEPT ![i] =
                               [st |-> "done", raised |-> r.raised, record |-> r.record]]
          /\ fetchRaised' = IF r.providerRaised THEN fetchRaised \cup {i} ELSE fetchRaised
          /\ workerRaised' = IF r.raised THEN workerRaised \cup {i} ELSE workerRaised
    /\ UNCHANGED <<provHist, codes, batchPc, results, bProcessed, reports,
                   navCache0, notBatchVars>>

\* a report at the multiples only, none at the end
ReportDue_NoFinal(n, total) == n % ProgressEvery = 0

\* if processed % 10 == 0 or processed == total
ReportDue(n, total) == n % ProgressEvery = 0 \/ n = total

\* one turn of the as_completed loop, on the finished future of position i
TakeResult(i) ==
    /\ batchPc = "pool"
    /\ future_map[i].st = "done"
    /\ results' = DictPut(results, codes[i],
                          IF future_map[i].raised THEN ErrorEntry(codes[i])
                          ELSE future_map[i].record)
    /\ bProcessed' = bProcessed + 1
    /\ reports' = IF ReportDue(bProcessed', Len(codes))
                  THEN Append(reports, bProcessed') ELSE reports
    /\ future_map' = [future_map EXCEPT ![i].st = "taken"]
    /\ UNCHANGED <<provHist, navCache, codes, batchPc, navCache0, fetchRaised,
                   workerRaised, notBatchVars>>

\* the loop ends at the first taken result
LoopOver_AtFirst(futures) == \E i \in DOMAIN futures : futures[i].st = "taken"

\* as_completed is exhausted: every future has been yielded
LoopOver(futures) == \A i \in DOMAIN futures : futures[i].st = "taken"

\* return results
ReturnBatch ==
    /\ batchPc = "pool"
    /\ LoopOver(future_map)
    /\ batchPc' = "returned"
    /\ UNCHANGED <<provHist, navCache, codes, future_map, results, bProcessed,
                   reports, navCache0, fetchRaised, workerRaised, notBatchVars>>

NextBatch ==
    \/ ReturnEmptyBatch
    \/ SubmitBatch
    \/ \E i \in DOMAIN future_map : RunWorker(i)
    \/ \E i \in DOMAIN future_map : TakeResult(i)
    \/ ReturnBatch

(***************************************************************************)
(* MetricsEngine: compute_metrics_for_code, one step at a time             *)
(***************************************************************************)
MaxHistRows == 3

\* rows the provider may hold for a code: two dated ones, a second row for
\* day 1, and a row whose date does not parse
HistRowPool == {Row(1, 100), Row(2, 120), Row(1, 90), BadDateRow(5)}

\* the answers built on a list of rows: both modes work, the DataFrame mode
\* raises, the dict mode raises, both raise
AnswersOn(rows) ==
    { [frame |-> HistRows(rows), dict |-> HistRows(rows)],
      [frame |-> HistRaises, dict |-> HistRows(rows)],
      [frame |-> HistRows(rows), dict |-> HistRaises],
      Failing }

\* the moment of the call, and ages of the cache file around the limit
WallNow == (CACHE_MAX_AGE_DAYS + CACHE_MAX_AGE_DAYS) * SecondsPerDay

AgeLimit == CACHE_MAX_AGE_DAYS * SecondsPerDay

Ages == {0, AgeLimit, AgeLimit + 1, AgeLimit + SecondsPerDay - 1, AgeLimit + SecondsPerDay}

\* what a cache file may hold: two points, one point, two points of one day,
\* a point without a date, a point without a value
SeriesTwo == <<Row(1, 100), Row(2, 120)>>

SeriesOne == <<Row(1, 100)>>

SeriesSameDay == <<Row(1, 100), Row(1, 90)>>

SeriesUndated == <<BadDateRow(90), Row(1, 100)>>

SeriesNoValue == <<Row(1, 100), BadNavRow(2)>>

CacheFiles ==
    {NoNavFile, CorruptNavFile(WallNow, SeriesTwo)}
        \cup { NavFile(WallNow - age, SeriesTwo) : age \in Ages }
        \cup { NavFile(WallNow, series) :
               series \in {SeriesOne, SeriesSameDay, SeriesUndated, SeriesNoValue} }

\* no details or quote call has been made
NoFeeCalls == [details |-> 0, quote |-> 0]

FeeIdle == fee_details = Raises /\ fee_quote = Raises /\ fee_calls = NoFeeCalls

FetchIdle ==
    /\ fetchPc = "off" /\ cache_file = NoNavFile /\ hist = Failing
    /\ mftool_ok = FALSE /\ wall = 0 /\ nav_out = <<>>
    /\ cache_after = NoNavFile /\ hist_calls = 0 /\ record = NoneVal

FetchInit ==
    /\ fetchPc = "cache"
    /\ cache_file \in CacheFiles
    /\ \E n \in 0..MaxHistRows : \E rows \in [1..n -> HistRowPool] :
           hist \in AnswersOn(rows)
    /\ mftool_ok \in BOOLEAN
    /\ wall = WallNow
    /\ nav_out = <<>>
    /\ cache_after = cache_file
    /\ hist_calls = 0
    /\ record = NoneVal
    /\ \E a \in FeeAnswers : fee_details = a[1] /\ fee_quote = a[2]
    /\ fee_calls = NoFeeCalls

\* step 1: the cache; a fresh, readable file with more than one point is
\* returned, anything else (a read that raises included) falls through
ReadCache ==
    /\ fetchPc = "cache"
    /\ IF CacheServes(cache_file, wall)
       THEN nav_out' = CacheLoad(cache_file.series) /\ fetchPc' = "returned"
       ELSE nav_out' = <<>> /\ fetchPc' = "client"
    /\ UNCHANGED <<cache_file, hist, mftool_ok, wall, cache_after, hist_calls,
                   record, feeVars, notFetchVars>>

\* mf = Mftool(), outside any try
BuildClient ==
    /\ fetchPc = "client"
    /\ fetchPc' = IF mftool_ok THEN "frame" ELSE "raised"
    /\ UNCHANGED <<cache_file, hist, mftool_ok, wall, nav_out, cache_after,
                   hist_calls, record, feeVars, notFetchVars>>

\* a) mf.get_scheme_historical_nav(code, as_Dataframe=True)
FrameMode ==
    /\ fetchPc = "frame"
    /\ hist_calls' = hist_calls + 1
    /\ nav_out' = IF hist.frame.t = "raise" THEN <<>>
                  ELSE _nav_from_dataframe(hist.frame.rows)
    /\ fetchPc' = IF nav_out' = <<>> THEN "dict" ELSE "save"
    /\ UNCHANGED <<cache_file, hist, mftool_ok, wall, cache_after, record,
                   feeVars, notFetchVars>>

\* b) mf.get_scheme_historical_nav(code) when a) left nothing
DictMode ==
    /\ fetchPc = "dict"
    /\ hist_calls' = hist_calls + 1
    /\ nav_out' = IF hist.dict.t = "raise" THEN <<>>
                  ELSE _nav_from_dict(hist.dict.rows)
    /\ fetchPc' = IF nav_out' = <<>> THEN "returned" ELSE "save"
    /\ UNCHANGED <<cache_file, hist, mftool_ok, wall, cache_after, record,
                   feeVars, notFetchVars>>

\* step 3: the series is written to the cache file and returned
SaveCache ==
    /\ fetchPc = "save"
    /\ cache_after' = NavFile(wall, nav_out)
    /\ fetchPc' = "returned"
    /\ UNCHANGED <<cache_file, hist, mftool_ok, wall, nav_out, hist_calls,
                   record, feeVars, notFetchVars>>

\* no figure is computed from a series that leaves nothing to compute
Insufficient_Empty(nav) == FALSE

\* a series of one point is taken as sufficient
Insufficient_OnlyEmpty(nav) == Len(nav) < 1

\* if nav is None or len(nav) < 2
Insufficient(nav) == Len(nav) < 2

\* insufficient NAV: the record as it was initialised is returned
ReturnInsufficient ==
    /\ fetchPc = "returned"
    /\ Insufficient(nav_out)
    /\ record' = InsufficientRecord(CheckedCode)
    /\ fetchPc' = "insufficient"
    /\ UNCHANGED <<cache_file, hist, mftool_ok, wall, nav_out, cache_after,
                   hist_calls, feeVars, notFetchVars>>

\* data_points, first_date (nav.index[0] raises on an empty series), the
\* performance and risk figures
ComputeDerived ==
    /\ fetchPc = "returned"
    /\ ~Insufficient(nav_out)
    /\ IF nav_out = <<>>
       THEN record' = NoneVal /\ fetchPc' = "failed"
       ELSE /\ record' = FullRecord(CheckedCode, nav_out, EmptyDict, EmptyDict)
            /\ fetchPc' = "fees"
    /\ UNCHANGED <<cache_file, hist, mftool_ok, wall, nav_out, cache_after,
                   hist_calls, feeVars, notFetchVars>>

\* fetch_scheme_fees_and_aum: a client is built, outside any try, and asked
\* for the details and the quote
FetchFees ==
    /\ fetchPc = "fees"
    /\ IF mftool_ok
       THEN /\ record' = FullRecord(CheckedCode, nav_out, FetchOrEmpty(fee_details),
                                    FetchOrEmpty(fee_quote))
            /\ fee_calls' = [details |-> fee_calls.details + 1,
                             quote |-> fee_calls.quote + 1]
            /\ fetchPc' = "computed"
       ELSE record' = NoneVal /\ fee_calls' = fee_calls /\ fetchPc' = "failed"
    /\ UNCHANGED <<cache_file, hist, mftool_ok, wall, nav_out, cache_after,
                   hist_calls, fee_details, fee_quote, notFetchVars>>

NextFetch ==
    \/ ReadCache \/ BuildClient \/ FrameMode \/ DictMode \/ SaveCache
    \/ ReturnInsufficient \/ ComputeDerived \/ FetchFees

\* the steps come to what fetch_nav_series, taken as one function, comes to
FetchStepsAgree ==
    fetchPc \in {"returned", "raised"} =>
        fetch_nav_series(cache_file, hist, mftool_ok, wall)
            = Fetched(fetchPc = "raised", nav_out, cache_after,
                      hist_calls = 2 /\ hist.dict.t = "raise")

MetricsStepsAgree ==
    fetchPc \in {"raised", "failed", "insufficient", "computed"} =>
        The({ /\ m.raised = (fetchPc \in {"raised", "failed"})
              /\ m.record = record
              /\ m.file = cache_after :
              m \in { compute_metrics_for_code(CheckedCode, cache_file, hist, fee_details,
                                              fee_quote, mftool_ok, wall) } })

(***************************************************************************)
(* MetricsEngine: the performance and risk functions on a series           *)
(***************************************************************************)
MaxNavPoints == 4

\* prices of a series (none is negative) and the days between two points of it
PricePool == {0, 90, 100, 110, 120, 121}

Spacings == {0, DaysPerYear, DaysPerYear + DaysPerYear}

\* a series as fetch_nav_series returns it: dated, valued, ascending by date
SeriesOf(prices, gap) == [i \in 1..Len(prices) |-> Row((i - 1) * gap, prices[i])]

MetricsIdle == metPc = "off" /\ nav_in = <<>> /\ figures = NoneVal

MetricsInit ==
    /\ metPc = "start"
    /\ \E n \in 0..MaxNavPoints : \E prices \in [1..n -> PricePool] :
       \E gap \in Spacings :
           nav_in = SeriesOf(prices, gap)
    /\ figures = NoneVal

\* the figures compute_metrics_for_code takes from a series
ComputeFigures ==
    /\ metPc = "start"
    /\ figures' =
           [cagr |-> compute_periodic_returns(nav_in),
            rolling_1y |-> rolling_return(nav_in, DaysPerYear),
            rolling_3y |-> rolling_return(nav_in, DaysPerYear * 3),
            rolling_5y |-> rolling_return(nav_in, DaysPerYear * 5),
            volatility_annual |-> annualized_volatility(nav_to_returns(nav_in)),
            max_drawdown |-> max_drawdown(nav_in),
            sharpe |-> sharpe_ratio(nav_to_returns(nav_in)),
            sortino |-> sortino_ratio(nav_to_returns(nav_in))]
    /\ metPc' = "done"
    /\ UNCHANGED <<nav_in, notMetricsVars>>

NextMetrics == ComputeFigures

(***************************************************************************)
(* RepresentativeSelector: choose_representative                           *)
(***************************************************************************)
MaxRepEntries == 3

\* has_token(name, token): re.search(r"\btoken\b", name, re.IGNORECASE)
has_token(name, token) ==
    \E i \in 1..Len(name) :
        /\ WordBoundary(name, i)
        /\ LitAt(name, i, token)
        /\ WordBoundary(name, i + Len(token))

\* the tests of rules 1 to 3 on one name
IsDirectGrowth(name) ==
    /\ has_token(name, W_direct)
    /\ \/ has_token(name, W_growth)
       \/ ~has_token(name, W_idcw) /\ ~has_token(name, W_dividend)

IsDirect(name) == has_token(name, W_direct)

IsRegularGrowth(name) == has_token(name, W_regular) /\ has_token(name, W_growth)

\* qc.get("aum") or qc.get("AUM") or qc.get("asset_under_management")
\*   or qc.get("assets_under_management")
AumField(q) ==
    PyOr(DictGet(q, "aum"),
         PyOr(DictGet(q, "AUM"),
              PyOr(DictGet(q, "asset_under_management"),
                   DictGet(q, "assets_under_management"))))

\* the value of a text of digits with an optional sign
DigitValue(c) == CHOOSE d \in 0..9 : <<"0","1","2","3","4","5","6","7","8","9">>[d + 1] = c

WholeNumber(text) ==
    LET digits == Unsigned(text)
        val[i \in 0..Len(digits)] ==
            IF i = 0 THEN 0 ELSE 10 * val[i - 1] + DigitValue(digits[i])
    IN  IF text # <<>> /\ text[1] = "-" THEN 0 - val[Len(digits)]
        ELSE val[Len(digits)]

\* aum_val = float(str(aum).replace(",", "")) if aum not in (None, "") else 0.0,
\* and 0.0 when float raises; the AUM texts explored are whole numbers
AumValue(aum) ==
    IF aum = NoneVal \/ aum = Text(<<>>) THEN 0
    ELSE The({ IF FloatParses(t) THEN WholeNumber(t) ELSE 0 :
               t \in {DropCommas(StrOf(aum))} })

\* the loop "if aum_val > best_aum: best_aum = aum_val; best = (code, name)"
\* over the entries that are looked at, each with the quote found for it;
\* best is a position of entries, 0 for None
BestByAum(n, looked, quoteOf, start) ==
    LET scan[i \in 0..n] ==
            IF i = 0 THEN start
            ELSE IF looked[i] /\ AumValue(AumField(quoteOf[i])) > scan[i - 1].best_aum
                 THEN [best |-> i, best_aum |-> AumValue(AumField(quoteOf[i]))]
                 ELSE scan[i - 1]
    IN  scan[n]

Chosen(code, name, reason, score) ==
    [rep_code |-> code, rep_name |-> name, reason |-> reason, score |-> score]

\* the first entry that passes a rule
FirstPassing(es, passing) == es[SetMin(passing)]

\* rule 4: the entries with a non-empty cached quote, by cached AUM
CachedPass(es, cache) ==
    The({ BestByAum(Len(es), [i \in 1..Len(es) |-> Truthy(quoteOf[i])], quoteOf,
                    [best |-> 0, best_aum |-> 0 - 1]) :
          quoteOf \in { [i \in 1..Len(es) |-> DictGet(cache, es[i][1])] } })

\* rule 5: every entry, by the AUM of a live quote ({} when the fetch raises)
LivePass(es, live, start) ==
    The({ BestByAum(Len(es), [i \in 1..Len(es) |-> TRUE], quoteOf, start) :
          quoteOf \in { [i \in 1..Len(es) |-> FetchOrEmpty(live[es[i][1]])] } })

\* rules 4 to 6, reached when no name passes rules 1 to 3
ChooseByAum(es, cache, live, clientOk) ==
    The({ IF Truthy(cache) /\ c.best # 0
          THEN Chosen(es[c.best][1], es[c.best][2], "highest_aum_cached", c.best_aum)
          ELSE IF ~clientOk
          THEN Chosen(es[1][1], es[1][2], "first_fallback", 10)
          ELSE The({ IF l.best # 0
                     THEN Chosen(es[l.best][1], es[l.best][2],
                                 "highest_aum_live", l.best_aum)
                     ELSE Chosen(es[1][1], es[1][2], "first_fallback", 10) :
                     l \in { LivePass(es, live,
                                      IF Truthy(cache) THEN c
                                      ELSE [best |-> 0, best_aum |-> 0 - 1]) } }) :
          c \in { IF Truthy(cache) THEN CachedPass(es, cache)
                  ELSE [best |-> 0, best_aum |-> 0 - 1] } })

\* the cascade with rules 2 and 1 exchanged
RuleCascade_DirectFirst(es, cache, live, clientOk) ==
    The({ IF r[2] # {} THEN Chosen(FirstPassing(es, r[2])[1],
                                   FirstPassing(es, r[2])[2], "direct", 80)
          ELSE IF r[1] # {} THEN Chosen(FirstPassing(es, r[1])[1],
                                        FirstPassing(es, r[1])[2], "direct_growth", 100)
          ELSE IF r[3] # {} THEN Chosen(FirstPassing(es, r[3])[1],
                                        FirstPassing(es, r[3])[2], "regular_growth", 60)
          ELSE ChooseByAum(es, cache, live, clientOk) :
          r \in { << {i \in 1..Len(es) : IsDirectGrowth(es[i][2])},
                     {i \in 1..Len(es) : IsDirect(es[i][2])},
                     {i \in 1..Len(es) : IsRegularGrowth(es[i][2])} >> } })

\* rules 1 to 3, each a loop over all entries, then the AUM rules
RuleCascade(es, cache, live, clientOk) ==
    The({ IF r[1] # {} THEN Chosen(FirstPassing(es, r[1])[1],
                                   FirstPassing(es, r[1])[2], "direct_growth", 100)
          ELSE IF r[2] # {} THEN Chosen(FirstPassing(es, r[2])[1],
                                        FirstPassing(es, r[2])[2], "direct", 80)
          ELSE IF r[3] # {} THEN Chosen(FirstPassing(es, r[3])[1],
                                        FirstPassing(es, r[3])[2], "regular_growth", 60)
          ELSE ChooseByAum(es, cache, live, clientOk) :
          r \in { << {i \in 1..Len(es) : IsDirectGrowth(es[i][2])},
                     {i \in 1..Len(es) : IsDirect(es[i][2])},
                     {i \in 1..Len(es) : IsRegularGrowth(es[i][2])} >> } })

\* an empty list is answered before the cascade is entered
choose_representative_NoEmptyCheck(es, cache, live, clientOk) ==
    IF es = <<>> THEN Chosen(None, <<>>, "first_fallback", 10)
    ELSE RuleCascade(es, cache, live, clientOk)

\* choose_representative(entries, mf, quote_cache); a None name is <<>>
choose_representative(es, cache, live, clientOk) ==
    IF es = <<>> THEN Chosen(None, <<>>, "empty", 0)
    ELSE RuleCascade(es, cache, live, clientOk)

\* names of variants handed to choose_representative
R_RegularGrowth == <<"A","c","m","e"," ","F","u","n","d"," ","-"," ","R","e","g","u","l","a","r"," ","-"," ","G","r","o","w","t","h">>

R_DirectGrowth == <<"A","c","m","e"," ","F","u","n","d"," ","-"," ","D","i","r","e","c","t"," ","-"," ","G","r","o","w","t","h">>

R_DirectIdcw == <<"A","c","m","e"," ","F","u","n","d"," ","-"," ","D","i","r","e","c","t"," ","-"," ","I","D","C","W">>

R_DirectPlain == <<"A","c","m","e"," ","F","u","n","d"," ","-"," ","D","i","r","e","c","t">>

R_RegularIdcw == <<"A","c","m","e"," ","F","u","n","d"," ","-"," ","R","e","g","u","l","a","r"," ","-"," ","I","D","C","W">>

R_Redirect == <<"A","c","m","e"," ","R","e","d","i","r","e","c","t"," ","G","r","o","w","t","h">>

RepNames ==
    {R_RegularGrowth, R_DirectGrowth, R_DirectIdcw, R_DirectPlain, R_RegularIdcw,
     R_Redirect}

\* AUM texts found in quotes
AUM_300 == Text(<<"3","0","0">>)
AUM_500 == Text(<<"5","0","0">>)
AUM_900 == Text(<<"9","0","0">>)
AUM_1200 == Text(<<"1","2","0","0">>)
AUM_1200Commas == Text(<<"1",",","2","0","0">>)
AUM_NotAvailable == Text(NAV_NotAvailable)

\* quote caches (the file written by the ActiveSchemeFilter holds quotes as the
\* provider gave them): none, quotes without an AUM field, quotes with AUM
\* under several keys and a tie, an empty entry before an unparsable AUM
QC_Empty == EmptyDict

QC_NoAum == [c \in {"101", "102"} |-> Q_Today]

QC_Aum ==
    [c \in {"101", "102", "103"} |->
        IF c = "101" THEN [aum |-> AUM_500]
        ELSE IF c = "102" THEN [AUM |-> AUM_1200Commas]
        ELSE [asset_under_management |-> AUM_1200]]

QC_SecondOnly ==
    [c \in {"101", "102"} |-> IF c = "101" THEN EmptyDict ELSE [aum |-> AUM_NotAvailable]]

QuoteCaches == {QC_Empty, QC_NoAum, QC_Aum, QC_SecondOnly}

\* what get_scheme_quote does for each code
Live_AllRaise == [c \in Range(AllCodes) |-> Raises]

Live_NoAum == [c \in Range(AllCodes) |-> Q_Today]

Live_Aum ==
    [c \in Range(AllCodes) |->
        IF c = "101" THEN [aum |-> AUM_300]
        ELSE IF c = "102" THEN [assets_under_management |-> AUM_900]
        ELSE IF c = "103" THEN Raises
        ELSE [aum |-> AUM_900]]

LiveQuotes == {Live_AllRaise, Live_NoAum, Live_Aum}

\* the lists of up to MaxRepEntries (code, name) pairs, codes in AllCodes order
EntryLists(n) == [1..n -> RepNames]

EntriesOf(names) == [i \in 1..Len(names) |-> <<AllCodes[i], names[i]>>]

RepIdle == repPc = "off" /\ entries = <<>> /\ mf_ok = FALSE /\ chosen = NoneVal

RepInit ==
    /\ repPc = "start"
    /\ \E n \in 0..MaxRepEntries : \E names \in EntryLists(n) :
           entries = EntriesOf(names)
    /\ \/ mf_ok = TRUE /\ provQuote \in LiveQuotes
       \/ mf_ok = FALSE /\ provQuote = Live_AllRaise
    /\ chosen = NoneVal
    /\ quote_cache \in QuoteCaches
    /\ provDetails = <<>> /\ now = 0 /\ details_cache = <<>>

\* rep_code, rep_name, reason, score = choose_representative(entries, mf, quote_cache)
ChooseRepresentative ==
    /\ repPc = "start"
    /\ chosen' = choose_representative(entries, quote_cache, provQuote, mf_ok)
    /\ repPc' = "done"
    /\ UNCHANGED <<entries, mf_ok, filterVars, notRepVars>>

NextRep == ChooseRepresentative

(***************************************************************************)
(* build_master_list_cache: the pool and the checkpoints, counted by code  *)
(***************************************************************************)
\* Codes are interchangeable here: a listing of CHECKPOINT_EVERY codes and a
\* few more, none of them in the caches loaded from disk, so each worker
\* fetches the details of its code and stores them in details_cache.
MaxExtraCodes == 1

PoolTotals == { CHECKPOINT_EVERY + k : k \in 1..MaxExtraCodes }

PoolIdle ==
    /\ poolPc = "idle" /\ poolTotal = 0 /\ poolWorkers = 0 /\ poolRunning = 0
    /\ poolFetched = 0 /\ poolProcessed = 0 /\ poolDurable = 0

\* the executor is entered: every code is submitted, none has started
PoolInit ==
    /\ poolPc = "pool"
    /\ poolTotal \in PoolTotals
    /\ poolWorkers = MAX_WORKERS
    /\ poolRunning = 0 /\ poolFetched = 0 /\ poolProcessed = 0 /\ poolDurable = 0

\* the submitted calls that no thread has picked up yet
PoolQueued == poolTotal - poolFetched - poolRunning

\* a free thread of the executor picks up a submitted call
WorkerStarts ==
    /\ poolPc = "pool"
    /\ PoolQueued > 0
    /\ poolRunning < poolWorkers
    /\ poolRunning' = poolRunning + 1
    /\ UNCHANGED <<poolPc, poolTotal, poolWorkers, poolFetched, poolProcessed, poolDurable, notPoolVars>>

\* _check_code_active returns: the entry of its code is in details_cache
WorkerReturns ==
    /\ poolPc = "pool"
    /\ poolRunning > 0
    /\ poolRunning' = poolRunning - 1
    /\ poolFetched' = poolFetched + 1
    /\ UNCHANGED <<poolPc, poolTotal, poolWorkers, poolProcessed, poolDurable, notPoolVars>>

\* _safe_save_json(DETAILS_CACHE_FILE, details_cache): what is in memory now
Flushed == poolFetched

\* one turn of the as_completed loop, over a call that has returned
ConsumeResult ==
    /\ poolPc = "pool"
    /\ poolProcessed < poolFetched
    /\ poolProcessed' = poolProcessed + 1
    /\ poolDurable' = IF poolProcessed' % CHECKPOINT_EVERY = 0 THEN Flushed ELSE poolDurable
    /\ UNCHANGED <<poolPc, poolTotal, poolWorkers, poolRunning, poolFetched, notPoolVars>>

\* the loop is over: the caches are saved once more
FinalSave ==
    /\ poolPc = "pool"
    /\ poolProcessed = poolTotal
    /\ poolDurable' = Flushed
    /\ poolPc' = "saved"
    /\ UNCHANGED <<poolTotal, poolWorkers, poolRunning, poolFetched, poolProcessed, notPoolVars>>

NextPool == WorkerStarts \/ WorkerReturns \/ ConsumeResult \/ FinalSave

(***************************************************************************)
(* _safe_save_json and the master-file write, one file operation at a time *)
(***************************************************************************)
MaxSaveEntries == 3

\* the three persisted files of a build
SavePaths == {"DETAILS_CACHE_FILE", "QUOTE_CACHE_FILE", "MASTER_CACHE_FILE"}

SaveEntryPool == <<"101", "102", "103", "104", "105">>

\* the dictionaries a file can hold: the entries of the first n codes
EntriesUpTo(n) == SubSeq(SaveEntryPool, 1, n)

\* json.dump(obj): the opening brace, one piece per entry, the closing brace
JsonText(obj) == <<"{">> \o obj \o <<"}">>

SaveIdle ==
    /\ savePc = "idle" /\ savePath = "" /\ prevDoc = <<>> /\ newDoc = <<>> /\ onDisk = <<>>

\* the file holds an earlier complete save; the caches only grow in a run
SaveInit ==
    /\ savePc = "start"
    /\ savePath \in SavePaths
    /\ \E n \in 0..MaxSaveEntries : \E k \in n..MaxSaveEntries :
          /\ prevDoc = EntriesUpTo(n)
          /\ newDoc = EntriesUpTo(k)
    /\ onDisk = JsonText(prevDoc)

\* open(path, "w"): the file is truncated to nothing
OpenForWrite ==
    /\ savePc = "start"
    /\ onDisk' = <<>>
    /\ savePc' = "writing"
    /\ UNCHANGED <<savePath, prevDoc, newDoc, notSaveVars>>

\* json.dump writes the next piece of the text into the open file
WritePiece ==
    /\ savePc = "writing"
    /\ Len(onDisk) < Len(JsonText(newDoc))
    /\ onDisk' = Append(onDisk, JsonText(newDoc)[Len(onDisk) + 1])
    /\ UNCHANGED <<savePc, savePath, prevDoc, newDoc, notSaveVars>>

\* the with block ends: the file is closed
CloseFile ==
    /\ savePc = "writing"
    /\ Len(onDisk) = Len(JsonText(newDoc))
    /\ savePc' = "saved"
    /\ UNCHANGED <<savePath, prevDoc, newDoc, onDisk, notSaveVars>>

\* the process is killed; what has reached the file stays there
Crash ==
    /\ savePc \in {"start", "writing"}
    /\ savePc' = "crashed"
    /\ UNCHANGED <<savePath, prevDoc, newDoc, onDisk, notSaveVars>>

NextSave == OpenForWrite \/ WritePiece \/ CloseFile \/ Crash

(***************************************************************************)
(* compute_metrics_batch: the loop and its progress reports, by count      *)
(***************************************************************************)
MaxSpareCodes == 1

\* batches of one code up to two report intervals and a few more
BatchTotals == 1..(2 * ProgressEvery + MaxSpareCodes)

ProgressIdle ==
    /\ progPc = "idle" /\ progTotal = 0 /\ progFinished = 0 /\ progProcessed = 0
    /\ progReports = <<>>

\* total = len(codes) is not 0: every code is submitted to the pool
ProgressInit ==
    /\ progPc = "pool"
    /\ progTotal \in BatchTotals
    /\ progFinished = 0 /\ progProcessed = 0
    /\ progReports = <<>>

\* a worker call ends, with a record or with an exception
WorkerEnds ==
    /\ progPc = "pool"
    /\ progFinished < progTotal
    /\ progFinished' = progFinished + 1
    /\ UNCHANGED <<progPc, progTotal, progProcessed, progReports, notProgressVars>>

\* one turn of the as_completed loop: the result is stored, processed is
\* counted up and the progress line is logged when it is due
TakeAndReport ==
    /\ progPc = "pool"
    /\ progProcessed < progFinished
    /\ progProcessed' = progProcessed + 1
    /\ progReports' = IF ReportDue(progProcessed', progTotal)
                      THEN Append(progReports, progProcessed') ELSE progReports
    /\ UNCHANGED <<progPc, progTotal, progFinished, notProgressVars>>

\* as_completed is exhausted; return results
BatchReturns ==
    /\ progPc = "pool"
    /\ progProcessed = progTotal
    /\ progPc' = "returned"
    /\ UNCHANGED <<progTotal, progFinished, progProcessed, progReports, notProgressVars>>

NextProgress == WorkerEnds \/ TakeAndReport \/ BatchReturns

(***************************************************************************)
(* build_parent_metrics: load_parent_reps                                  *)
(***************************************************************************)
\* representatives per parent, as an earlier build chose them and as a
\* build would choose them now
Reps_Earlier == [p \in {"acme equity fund"} |-> "101"]

Reps_Now == [p \in {"acme equity fund"} |-> "102"]

NoReps == <<>>

\* PARENT_MASTER_FILE: missing, not JSON, or a payload written at ts with
\* its parent_reps (a dictionary, or something else when dict is FALSE)
MissingParentMaster == [exists |-> FALSE, readable |-> FALSE, ts |-> 0, dict |-> FALSE, reps |-> NoReps]

BrokenParentMaster == [exists |-> TRUE, readable |-> FALSE, ts |-> 0, dict |-> FALSE, reps |-> NoReps]

ParentMaster(ts, reps) == [exists |-> TRUE, readable |-> TRUE, ts |-> ts, dict |-> TRUE, reps |-> reps]

ParentMasterNoDict(ts) == [exists |-> TRUE, readable |-> TRUE, ts |-> ts, dict |-> FALSE, reps |-> NoReps]

\* the clock at the call: the file's own second, the last second of the
\* TTL, the first after it, and later
LoadTimes ==
    { 0, 1, CACHE_TTL_SECONDS - 1, CACHE_TTL_SECONDS, CACHE_TTL_SECONDS + 1,
      2 * CACHE_TTL_SECONDS, NAV_FRESH_DAYS * SecondsPerDay }

ParentMasterFiles ==
    { MissingParentMaster, BrokenParentMaster, ParentMasterNoDict(0),
      ParentMaster(0, NoReps), ParentMaster(0, Reps_Earlier), ParentMaster(1, Reps_Earlier) }

NotLoaded == [via |-> "none", reps |-> NoReps]

LoadIdle ==
    /\ loadPc = "idle" /\ parent_master_file = MissingParentMaster /\ loadAt = 0
    /\ rebuilt_reps = NoReps /\ loadedFile = MissingParentMaster /\ parent_reps = NotLoaded

LoadInit ==
    /\ loadPc = "called"
    /\ parent_master_file \in ParentMasterFiles
    /\ loadAt \in {t \in LoadTimes : t >= parent_master_file.ts}
    /\ rebuilt_reps \in {NoReps, Reps_Earlier, Reps_Now}
    /\ loadedFile = parent_master_file
    /\ parent_reps = NotLoaded

\* if os.path.exists(...): payload = json.load(...); parent_reps =
\* payload.get("parent_reps", {}); isinstance(parent_reps, dict) and parent_reps
FileServes(file, clock) ==
    file.exists /\ file.readable /\ file.dict /\ file.reps # NoReps

\* the file is read and its parent_reps returned
LoadFromFile ==
    /\ loadPc = "called"
    /\ FileServes(parent_master_file, loadAt)
    /\ parent_reps' = [via |-> "file", reps |-> parent_master_file.reps]
    /\ loadPc' = "returned"
    /\ UNCHANGED <<parent_master_file, loadAt, rebuilt_reps, loadedFile, notLoadVars>>

\* build_all_exact(force_master=False) chooses the representatives anew and
\* writes them with the time of the build; a write that fails leaves the file
RebuildReps ==
    /\ loadPc = "called"
    /\ ~FileServes(parent_master_file, loadAt)
    /\ \E saved \in BOOLEAN :
          parent_master_file' = IF saved THEN ParentMaster(loadAt, rebuilt_reps)
                                ELSE parent_master_file
    /\ parent_reps' = [via |-> "rebuilt", reps |-> rebuilt_reps]
    /\ loadPc' = "returned"
    /\ UNCHANGED <<loadAt, rebuilt_reps, loadedFile, notLoadVars>>

NextLoad == LoadFromFile \/ RebuildReps

(***************************************************************************)
(* Claims about the NameNormalizer and the ParentGrouper                   *)
(***************************************************************************)
\* every (group key, position) at which a grouping lists an entry
Slots(groups) ==
    UNION { {<<k, j>> : j \in 1..Len(groups[k])} : k \in DOMAIN groups }

SlotsOf(groups, entry) ==
    {sl \in Slots(groups) : groups[sl[1]][sl[2]] = entry}

\* normalize_parent_name on the sample names, computed once
NormalizedSample == [n \in SampleNames |-> normalize_parent_name(n)]

NormalizesToEmpty(name) == NormalizedSample[name] = <<>>

\* the key the amended C8 gives an entry
TrimmedFallbackKey(name) ==
    IF NormalizesToEmpty(name) THEN Strip(Lower(name))
    ELSE NormalizedSample[name]

\* the key the original C8 gives an entry
RawFallbackKey(name) ==
    IF NormalizesToEmpty(name) THEN Lower(name)
    ELSE NormalizedSample[name]

ShareGroup(groups, e1, e2) ==
    \E k \in DOMAIN groups : e1 \in Range(groups[k]) /\ e2 \in Range(groups[k])

\* C8 (as amended): group_variants_exact partitions its input: every
\* (code, name) of the input is listed in exactly one group exactly once, the
\* number of listed entries equals the number of input codes, two codes share
\* a group if and only if their keys are equal, and a code whose name
\* normalizes to the empty string is keyed by its lowercased raw name with
\* leading and trailing whitespace stripped.
C8_PartitionTrimmedKey ==
    groupPc = "grouped" =>
        /\ \A i \in 1..Len(orderA) :
              Cardinality(SlotsOf(groupsA, orderA[i])) = 1
        /\ Cardinality(Slots(groupsA)) = Len(orderA)
        /\ \A i, j \in 1..Len(orderA) :
              ShareGroup(groupsA, orderA[i], orderA[j])
                  <=> TrimmedFallbackKey(orderA[i][2]) = TrimmedFallbackKey(orderA[j][2])
        /\ \A i \in 1..Len(orderA) :
              /\ TrimmedFallbackKey(orderA[i][2]) \in DOMAIN groupsA
              /\ orderA[i] \in Range(groupsA[TrimmedFallbackKey(orderA[i][2])])

\* C8 witness: a grouping with a shared group, a second group, and a name
\* that normalizes to the empty string and carries surrounding whitespace
C8_Witness ==
    /\ groupPc = "grouped"
    /\ \E k \in DOMAIN groupsA : Len(groupsA[k]) >= 2
    /\ Cardinality(DOMAIN groupsA) >= 2
    /\ \E i \in 1..Len(orderA) :
          /\ NormalizesToEmpty(orderA[i][2])
          /\ Strip(Lower(orderA[i][2])) # Lower(orderA[i][2])

\* C8 (original): ... and a code whose name normalizes to the empty string is
\* keyed by its lowercased raw name.
C8_PartitionRawKey ==
    groupPc = "grouped" =>
        /\ \A i \in 1..Len(orderA) :
              Cardinality(SlotsOf(groupsA, orderA[i])) = 1
        /\ Cardinality(Slots(groupsA)) = Len(orderA)
        /\ \A i, j \in 1..Len(orderA) :
              ShareGroup(groupsA, orderA[i], orderA[j])
                  <=> RawFallbackKey(orderA[i][2]) = RawFallbackKey(orderA[j][2])
        /\ \A i \in 1..Len(orderA) :
              /\ RawFallbackKey(orderA[i][2]) \in DOMAIN groupsA
              /\ orderA[i] \in Range(groupsA[RawFallbackKey(orderA[i][2])])

\* C9: grouping determinism: two orderings of the same code-to-name input
\* yield the same set of parent keys and, for each key, the same set of
\* member (code, name) pairs.
C9_OrderIndependent ==
    groupPc = "grouped" =>
        /\ DOMAIN groupsA = DOMAIN groupsB
        /\ \A k \in DOMAIN groupsA : Range(groupsA[k]) = Range(groupsB[k])

\* C9 witness: the two orderings differ and list some group's members in
\* different orders
C9_Witness ==
    /\ groupPc = "grouped"
    /\ orderA # orderB
    /\ \E k \in DOMAIN groupsA \cap DOMAIN groupsB :
          Len(groupsA[k]) >= 2 /\ groupsA[k] # groupsB[k]

\* C10: two names that differ only in plan/option vocabulary tokens,
\* bracketed content or punctuation normalize to the identical key.
C10_SameKey == normPc = "normalized" => keyA = keyB

\* the pair of names the specification gives as its example does agree
C10_ExamplePair ==
    (normPc = "normalized" /\ nameA = ExampleLong /\ nameB = ExampleShort)
        => keyA = keyB

C10_ExampleReached ==
    normPc = "normalized" /\ nameA = ExampleLong /\ nameB = ExampleShort

(***************************************************************************)
(* Claims about the RepresentativeSelector                                 *)
(***************************************************************************)
RepDone == repPc = "done"

\* the positions of entries whose name passes a test
DirectGrowthAt == {i \in 1..Len(entries) : IsDirectGrowth(entries[i][2])}

DirectAt == {i \in 1..Len(entries) : IsDirect(entries[i][2])}

RegularGrowthAt == {i \in 1..Len(entries) : IsRegularGrowth(entries[i][2])}

NoNameRuleApplies == DirectGrowthAt = {} /\ DirectAt = {} /\ RegularGrowthAt = {}

ChosenIs(i, reason, score) ==
    chosen = Chosen(entries[i][1], entries[i][2], reason, score)

\* C11: rules 1 to 3 are tried in order over the whole list and the first rule
\* that some entry passes decides: the earliest entry passing it is returned,
\* with direct_growth/100, direct/80 or regular_growth/60, wherever that
\* entry sits ("contains" is the whole-word, case-blind test of the names).
C11_NameRulesInOrder ==
    RepDone =>
        /\ DirectGrowthAt # {} => ChosenIs(SetMin(DirectGrowthAt), "direct_growth", 100)
        /\ DirectGrowthAt = {} /\ DirectAt # {} =>
               ChosenIs(SetMin(DirectAt), "direct", 80)
        /\ DirectGrowthAt = {} /\ DirectAt = {} /\ RegularGrowthAt # {} =>
               ChosenIs(SetMin(RegularGrowthAt), "regular_growth", 60)

\* the spec's case: Regular-Growth listed before Direct-Growth, the second
\* entry is returned as direct_growth
C11_Witness ==
    /\ RepDone
    /\ Len(entries) = 2
    /\ entries[1][2] = R_RegularGrowth /\ entries[2][2] = R_DirectGrowth
    /\ chosen = Chosen("102", R_DirectGrowth, "direct_growth", 100)

\* a quote carries an AUM value: one of the AUM fields is set and is a number
HasAum(q) ==
    /\ Truthy(q) /\ q # Raises
    /\ Truthy(AumField(q))
    /\ FloatParses(DropCommas(StrOf(AumField(q))))

CachedQuote(i) == DictGet(quote_cache, entries[i][1])

LiveQuote(i) == provQuote[entries[i][1]]

CachedAumAt == {i \in 1..Len(entries) : HasAum(CachedQuote(i))}

LiveAumAt == {i \in 1..Len(entries) : HasAum(LiveQuote(i))}

CachedAum(i) == AumValue(AumField(CachedQuote(i)))

LiveAum(i) == AumValue(AumField(LiveQuote(i)))

ChosenAt == {i \in 1..Len(entries) :
                chosen.rep_code = entries[i][1] /\ chosen.rep_name = entries[i][2]}

\* C12: when no name rule applies, highest_aum_cached is returned only if some
\* variant has an AUM value in the quote cache, and then for a variant of
\* maximal cached AUM with that AUM as score; when the cache has no AUM for
\* any variant the live quotes are consulted and a variant of highest live AUM
\* is returned as highest_aum_live.
C12_CachedAumElseLiveAum ==
    RepDone /\ entries # <<>> /\ NoNameRuleApplies =>
        /\ chosen.reason = "highest_aum_cached" =>
               /\ CachedAumAt # {}
               /\ \E i \in CachedAumAt \cap ChosenAt :
                      /\ \A j \in CachedAumAt : CachedAum(j) <= CachedAum(i)
                      /\ chosen.score = CachedAum(i)
        /\ CachedAumAt = {} /\ mf_ok /\ LiveAumAt # {} =>
               /\ chosen.reason = "highest_aum_live"
               /\ \E i \in LiveAumAt \cap ChosenAt :
                      /\ \A j \in LiveAumAt : LiveAum(j) <= LiveAum(i)
                      /\ chosen.score = LiveAum(i)

\* C13: when no name rule applies and neither the quote cache nor the live
\* lookup gives an AUM value for any variant, the first entry is returned
\* with reason first_fallback and score 10.
C13_NoAumMeansFirstFallback ==
    RepDone /\ entries # <<>> /\ NoNameRuleApplies
            /\ CachedAumAt = {} /\ (~mf_ok \/ LiveAumAt = {}) =>
        ChosenIs(1, "first_fallback", 10)

\* C14: the null representative (None, None, "empty", 0) is returned exactly
\* for the empty list; for every other list the returned code and name are
\* those of one input entry and the reason is one of the six tiers.
C14_EmptyIffNoEntries ==
    RepDone =>
        /\ chosen = Chosen(None, <<>>, "empty", 0) <=> entries = <<>>
        /\ entries # <<>> =>
               /\ ChosenAt # {}
               /\ chosen.reason \in {"direct_growth", "direct", "regular_growth",
                                     "highest_aum_cached", "highest_aum_live",
                                     "first_fallback"}

\* the empty list was given and the null representative came back
C14_Witness == RepDone /\ entries = <<>> /\ chosen.reason = "empty" /\ chosen.rep_code = None

(***************************************************************************)
(* Claims about fetch_nav_series                                           *)
(***************************************************************************)
FetchReturned == fetchPc = "returned"

FetchOver == fetchPc \in {"returned", "raised"}

\* C15: every series fetch_nav_series returns, from the cache or from either
\* provider mode, is strictly ascending by date: every point has a date and
\* no two points share one.
C15_ReturnedSeriesStrictlyAscending ==
    FetchReturned =>
        /\ \A i \in 1..Len(nav_out) : nav_out[i].dateOk
        /\ \A i, j \in 1..Len(nav_out) : i < j => nav_out[i].date < nav_out[j].date

\* the age of the cache file at the call, in seconds
CacheAge == wall - cache_file.mtime

\* the call returned the cached series without asking the provider
ServedFromCache == FetchReturned /\ hist_calls = 0 /\ nav_out # <<>>

\* C16: a cached file is fresh exactly when its modification age is at most
\* 7 days; a file older than 7 days by any amount is never served from the
\* cache and always leads to a provider fetch.
C16_FreshWithinSevenDays ==
    FetchOver /\ cache_file.exists =>
        /\ _cache_is_fresh(cache_file, wall) <=> CacheAge <= AgeLimit
        /\ CacheAge > AgeLimit =>
               /\ ~ServedFromCache
               /\ mftool_ok => hist_calls > 0

\* the cache file holds at least two rows with a value, can be read and is
\* fresh by _cache_is_fresh
ValuedRows(rows) == {i \in 1..Len(rows) : rows[i].navOk}

GoodCacheFile ==
    /\ cache_file.exists /\ cache_file.readable
    /\ _cache_is_fresh(cache_file, wall)
    /\ Cardinality(ValuedRows(cache_file.series)) >= 2

MetricsOver == fetchPc \in {"insufficient", "computed", "failed"}

DerivedMetrics(r) ==
    <<r.cagr, r.rolling_1y, r.rolling_3y, r.rolling_5y, r.volatility_annual,
      r.max_drawdown, r.sharpe, r.sortino>>

\* C18: when the NAV series of a code has fewer than 2 points (none, or
\* exactly 1), compute_metrics_for_code raises nothing and returns a record
\* in which cagr, the three rolling returns, volatility_annual, max_drawdown,
\* sharpe and sortino are all None.
C18_InsufficientDataAllNone ==
    MetricsOver /\ Len(nav_out) < 2 =>
        /\ fetchPc # "failed"
        /\ record # NoneVal
        /\ \A i \in 1..Len(DerivedMetrics(record)) : DerivedMetrics(record)[i] = NoneVal

\* a series of exactly one point was fetched and the record returned
C18_Witness ==
    /\ fetchPc = "insufficient" /\ Len(nav_out) = 1
    /\ record.cagr = NoneVal /\ record.max_drawdown = NoneVal

(***************************************************************************)
(* Claims about the performance and risk functions                         *)
(***************************************************************************)
FiguresDone == metPc = "done"

Price(i) == nav_in[i].nav

AllPositive == \A i \in 1..Len(nav_in) : Price(i) > 0

\* the highest price up to position i
PeakAt(i) == CHOOSE m \in {Price(j) : j \in 1..i} : \A j \in 1..i : Price(j) <= m

\* d is at most (=: "leq"), or is (=: "eq"), price / peak - 1 at position i
DrawdownLeqAt(d, i) == d.n * PeakAt(i) <= (Price(i) - PeakAt(i)) * d.d

DrawdownEqAt(d, i) == d.n * PeakAt(i) = (Price(i) - PeakAt(i)) * d.d

Prices == [i \in 1..Len(nav_in) |-> Price(i)]

\* C19: on a series of at least 2 positive prices max_drawdown is the least,
\* over all positions, of price / (highest price so far) - 1; it is never
\* positive, it is 0 exactly when no price is below the peak before it, and
\* it is -0.25 on [100, 120, 90, 110].
C19_MaxDrawdownIsDeepestDip ==
    FiguresDone /\ Len(nav_in) >= 2 /\ AllPositive =>
        /\ figures.max_drawdown.t = "num"
        /\ \A i \in 1..Len(nav_in) : DrawdownLeqAt(figures.max_drawdown, i)
        /\ \E i \in 1..Len(nav_in) : DrawdownEqAt(figures.max_drawdown, i)
        /\ figures.max_drawdown.n <= 0
        /\ figures.max_drawdown.n = 0 <=> \A i \in 1..Len(nav_in) : Price(i) = PeakAt(i)
        /\ Prices = <<100, 120, 90, 110>> => figures.max_drawdown = Num(0 - 1, 4)

\* the spec's series was measured: a quarter below the peak of 120
C19_Witness ==
    /\ FiguresDone /\ Prices = <<100, 120, 90, 110>>
    /\ figures.max_drawdown = Num(0 - 25, 100)

DaysElapsed == nav_in[Len(nav_in)].date - nav_in[1].date

\* C20: compute_periodic_returns is None exactly on fewer than 2 points, on a
\* start price <= 0 or on elapsed days <= 0; otherwise it is
\* (end / start) ^ (365 / days elapsed) - 1, which for 100 on day 0 and 121
\* on day 730 is 0.10: the exponent is 1/2 and 1.10 squared is 1.21.
C20_CagrDefinedAndValue ==
    FiguresDone =>
        /\ figures.cagr = NoneVal <=>
               \/ Len(nav_in) < 2
               \/ Price(1) <= 0
               \/ DaysElapsed <= 0
        /\ figures.cagr # NoneVal =>
               /\ figures.cagr.t = "pow"
               /\ figures.cagr.base.n * Price(1) = Price(Len(nav_in)) * figures.cagr.base.d
               /\ figures.cagr.exp.n * DaysElapsed = DaysPerYear * figures.cagr.exp.d
        /\ Prices = <<100, 121>> /\ DaysElapsed = 730 =>
               /\ figures.cagr.exp = Num(1, 2)
               /\ figures.cagr.base = Num(11 * 11, 10 * 10)

\* two points, 100 and then 121 two years later
C20_Witness ==
    /\ FiguresDone /\ Prices = <<100, 121>> /\ DaysElapsed = 730
    /\ figures.cagr = PowMinusOne(Num(121, 100), Num(1, 2))

(***************************************************************************)
(* Claims about the ActiveSchemeFilter                                     *)
(***************************************************************************)
\* the four conditions of C6, read off the payloads the call worked on: the
\* scheme type is the first non-empty of scheme_type / type / status, the NAV
\* the first non-empty of the quote's nav fields, failing that the details'
\* nav, and the date the quote's last_updated, failing that the details'
NotClosedEnded(r) == ~_is_closed_scheme(SchemeTypeOf(r.details))

NumericNavObtainable(r) == _is_valid_nav(NavOf(r.details, r.quote))

LastUpdatedWithinWindow(r) ==
    LET d == LastUpdatedOf(r.details, r.quote)
    IN  DateParses(d) /\ now - d.at <= NAV_FRESH_DAYS * SecondsPerDay

TypeAbsentOrOpen(r) ==
    \/ ~Truthy(SchemeTypeOf(r.details))
    \/ _is_open_or_interval(SchemeTypeOf(r.details))

\* C6: _check_code_active returns is_active = true if and only if all four
\* hold: the scheme type matches no closed/maturity keyword, a numeric NAV is
\* obtainable from the quote or, failing that, from the details, the NAV's
\* last_updated date parses and is at most 30 days before now, and the scheme
\* type is absent or matches the open-ended/eligible vocabulary.
C6_ActiveIffAllFour ==
    clsPc = "returned" =>
        (checked.is_active <=>
            /\ NotClosedEnded(checked)
            /\ NumericNavObtainable(checked)
            /\ LastUpdatedWithinWindow(checked)
            /\ TypeAbsentOrOpen(checked))

\* C6 witness: a code returned active on a NAV taken from the details and a
\* date exactly on the edge of the window, with no scheme type at all
C6_Witness ==
    /\ clsPc = "returned"
    /\ checked.is_active
    /\ ~Truthy(SchemeTypeOf(checked.details))
    /\ DOMAIN checked.quote = {"last_updated"}
    /\ now - LastUpdatedOf(checked.details, checked.quote).at
           = NAV_FRESH_DAYS * SecondsPerDay

(***************************************************************************)
(* Claims about the ActiveMasterMap                                        *)
(***************************************************************************)
\* the map a call had at hand when it started: the one in memory, failing
\* that the one in the master file
PreviousMap(r) ==
    IF r.memBefore.some THEN r.memBefore.map
    ELSE IF r.diskBefore.exists THEN r.diskBefore.master
    ELSE <<>>

\* C3: when the provider's code enumeration raises, build_master_list_cache
\* returns the previously built active map if one exists, in memory or
\* persisted on disk, whatever its age and whether or not the call was
\* forced, returns an empty map only when no previous map exists, and
\* modifies neither the in-memory map nor the persisted master file.
C3_EnumerationFailureFallsBack ==
    lastRun.path = "enum_failed" =>
        /\ ret = PreviousMap(lastRun)
        /\ mem_cache = lastRun.memBefore
        /\ disk_master = lastRun.diskBefore

\* C4: a non-forced call reuses a previously built active map, without
\* enumerating the provider, only while that map's build timestamp is at
\* most 24 hours old.
C4_ReuseOnlyWithinTtl ==
    lastRun.path \in {"memory", "disk"} =>
        lastRun.at - lastRun.builtAt <= CACHE_TTL_SECONDS

\* C5: a code for which the provider raised on the details fetch or on the
\* quote fetch is classified inactive and is absent from the resulting
\* master map.
C5_FetchFailureMeansInactive ==
    /\ \A c \in DOMAIN fut :
          (c \in raisedFor /\ fut[c].st \in {"done", "consumed"})
              => ~fut[c].is_active
    /\ lastRun.path = "built" => raisedFor \cap MapValues(ret) = {}

EnumeratedCodes == CodesOf(groupedFrom.enumerated)

\* the number of places at which the parent groups list a code
Listings(code) ==
    Cardinality({sl \in Slots(parent_groups) :
                    parent_groups[sl[1]][sl[2]][1] = code})

Distinct(seq) == \A i, j \in 1..Len(seq) : seq[i] = seq[j] => i = j

IsErrorEntry(entry) == "error" \in DOMAIN entry

ErrorCodes == {c \in DOMAIN results : IsErrorEntry(results[c])}

SuccessCodes == DOMAIN results \ ErrorCodes

CodesAt(positions) == {codes[i] : i \in positions}

\* the record a code gets when it is computed on its own, the provider
\* client at hand, from the cache file it had at the start
RecordAlone(code) ==
    compute_metrics_for_code(code, navCache0[code], provHist[code],
                             provDetails[code], provQuote[code], TRUE, now).record

\* C1 (as stated): for a batch of N codes in which the provider fetch raises
\* for exactly k of them, nothing else failing, the returned map holds exactly
\* N-k successful records and exactly k error entries, those of the k codes.
C1_ErrorEntryPerFailedFetch ==
    (batchPc = "returned" /\ Distinct(codes) /\ workerRaised = {}) =>
        /\ ErrorCodes = CodesAt(fetchRaised)
        /\ Cardinality(SuccessCodes) = Len(codes) - Cardinality(fetchRaised)

\* C1 (as amended): for a batch of N distinct codes, the returned map holds N
\* entries; a code whose provider fetch raised gets the insufficient-data
\* record (data_points 0, nothing derived), not an error entry; the error
\* entries are exactly those of the codes whose worker raised; and every
\* other code has the record it gets when computed on its own.
C1_FailedFetchMeansNoData ==
    (batchPc = "returned" /\ Distinct(codes)) =>
        /\ Cardinality(DOMAIN results) = Len(codes)
        /\ ErrorCodes = CodesAt(workerRaised)
        /\ \A c \in CodesAt(fetchRaised) :
              ~IsErrorEntry(results[c]) /\ results[c] = InsufficientRecord(c)
        /\ \A c \in SuccessCodes : results[c] = RecordAlone(c)

\* C1 witness: three distinct codes, the provider fetch raised for exactly
\* one, and the map returned holds three records and no error entry
C1_Witness ==
    /\ batchPc = "returned"
    /\ Distinct(codes) /\ Len(codes) = 3
    /\ Cardinality(fetchRaised) = 1
    /\ workerRaised = {}
    /\ Cardinality(SuccessCodes) = 3
    /\ \E c \in SuccessCodes : results[c].data_points > 1

\* C2: when compute_metrics_batch returns, the result map has exactly one
\* entry, a metrics record or an error entry, for every submitted code and
\* none for any other code, and no submitted code lacks a result, whatever
\* the order in which the workers completed.
C2_OneEntryPerSubmittedCode ==
    batchPc = "returned" =>
        /\ DOMAIN results = Range(codes)
        /\ \A c \in DOMAIN results : results[c].scheme_code = c
        /\ \A i \in DOMAIN future_map : future_map[i].st = "taken"
        /\ bProcessed = Len(codes)

\* C2 witness: a batch of three positions over two codes has returned, with
\* an error entry and a record in the map
C2_Witness ==
    /\ batchPc = "returned"
    /\ Len(codes) = 3
    /\ Cardinality(DOMAIN results) = 2
    /\ ErrorCodes # {} /\ SuccessCodes # {}

(***************************************************************************)
(* Claims about the checkpoints and the writes of a build                  *)
(***************************************************************************)
\* the codes whose fetched details are in memory and not on disk
Unflushed == poolFetched - poolDurable

\* C21: at every moment of a build, the fetched cache entries that are not
\* yet in durable storage number at most CHECKPOINT_EVERY.
C21_UnflushedWithinOneInterval ==
    poolPc = "pool" => Unflushed <= CHECKPOINT_EVERY

\* C22: at every moment of a write, a crash included, the persisted file
\* holds its complete previous content or its complete new content.
C22_FileIsPreviousOrNew ==
    savePc # "idle" => onDisk \in {JsonText(prevDoc), JsonText(newDoc)}

(***************************************************************************)
(* Claims about the results of a build                                     *)
(***************************************************************************)
AllConsumed == pc = "pool" /\ DOMAIN fut # {} /\ \A c \in DOMAIN fut : fut[c].st = "consumed"

\* the map the loop builds when the classifications complete in the order
\* of the listing: the first n entries taken in turn
RECURSIVE MasterInListingOrder(_, _, _)
MasterInListingOrder(listing, f, n) ==
    IF n = 0 THEN <<>>
    ELSE IF f[listing[n][1]].is_active
         THEN DictPut(MasterInListingOrder(listing, f, n - 1), _normalize(listing[n][2]), listing[n][1])
         ELSE MasterInListingOrder(listing, f, n - 1)

\* C23: for a fixed directory and fixed classifications, the master map is
\* the same for every order of completion: it is the map of the order of
\* the listing.
C23_MasterSameForEveryOrder ==
    AllConsumed => master = MasterInListingOrder(codes_map, fut, Len(codes_map))

(***************************************************************************)
(* Claims about the progress reports of a batch                            *)
(***************************************************************************)
Reported == Range(progReports)

\* C24: in a non-empty batch a completed count is reported exactly when it
\* is a multiple of 10 or the total; the reported counts strictly increase,
\* and once the batch has returned the last report shows the total.
C24_ReportsAtTensAndAtEnd ==
    progPc # "idle" =>
       /\ \A n \in 1..progProcessed : n \in Reported <=> (n % 10 = 0 \/ n = progTotal)
       /\ Reported \subseteq 1..progProcessed
       /\ \A i, j \in DOMAIN progReports : i < j => progReports[i] < progReports[j]
       /\ progPc = "returned" =>
             /\ progReports # <<>>
             /\ progReports[Len(progReports)] = progTotal

C24_Witness ==
    /\ progPc = "returned"
    /\ progTotal = 21
    /\ progReports = <<10, 20, 21>>

(***************************************************************************)
(* Claims about the per-code caches of a build                             *)
(***************************************************************************)
\* the cache an operation of the provider fills
CacheOf(op, dc, qc) == IF op = "details" THEN dc ELSE qc

\* the keys of a cache that a step has written
Written(before, after) ==
    {k \in DOMAIN after : k \notin DOMAIN before \/ after[k] # before[k]}

\* C25: in a build the provider's details (quote) operation is invoked for a
\* code only if the details (quote) cache has no entry for it, at most once
\* per code and run, and right after the invocation the cache has an entry
\* for the code; a cache key is written only by the worker of its code.
C25_CachesAreReadThrough ==
    [][ (pc = "pool" /\ pc' = "pool") =>
          /\ \A k \in DOMAIN provCalls' :
                /\ provCalls'[k] <= 1
                /\ Calls(provCalls, k[1], k[2]) < provCalls'[k] =>
                      /\ k[2] \notin DOMAIN CacheOf(k[1], details_cache, quote_cache)
                      /\ k[2] \in DOMAIN CacheOf(k[1], details_cache', quote_cache')
          /\ \A c \in Written(details_cache, details_cache') :
                fut[c].st = "queued" /\ fut'[c].st = "details"
          /\ \A c \in Written(quote_cache, quote_cache') :
                fut[c].st = "details" /\ fut'[c].st = "done"
      ]_vars

\* a build over two codes with the entries of 101 on disk: 102 is fetched
\* once for its details and once for its quote, 101 not at all
C25_Witness ==
    /\ AllConsumed
    /\ Calls(provCalls, "details", "102") = 1 /\ Calls(provCalls, "quote", "102") = 1
    /\ Calls(provCalls, "details", "101") = 0 /\ Calls(provCalls, "quote", "101") = 0
    /\ "101" \in DOMAIN details_cache /\ "101" \in DOMAIN quote_cache

\* C27: a code with an entry in the persisted details (quote) cache, the
\* empty record included, is not fetched again for its details (quote) by
\* any later build, forced or not: it is classified from the cached entry.
C27_PersistedEntryNeverRefetched ==
    [][ (pc = "pool" /\ pc' = "pool") =>
          /\ \A k \in DOMAIN provCalls' :
                Calls(provCalls, k[1], k[2]) < provCalls'[k] =>
                   k[2] \notin DOMAIN CacheOf(k[1], disk_details, disk_quote)
          /\ \A c \in DOMAIN fut' :
                /\ (fut'[c].st # "queued" /\ c \in DOMAIN disk_details) =>
                      fut'[c].details = disk_details[c]
                /\ (fut'[c].st \in {"done", "consumed"} /\ c \in DOMAIN disk_quote) =>
                      fut'[c].quote = disk_quote[c]
      ]_vars

\* a forced build finds the empty records an earlier build stored for a code
\* whose fetches raised, and classifies the code without the provider
C27_Witness ==
    /\ AllConsumed /\ call.force
    /\ "101" \in DOMAIN disk_details /\ disk_details["101"] = EmptyDict
    /\ "101" \in DOMAIN disk_quote
    /\ Calls(provCalls, "details", "101") = 0 /\ Calls(provCalls, "quote", "101") = 0
    /\ fut["101"].details = EmptyDict

\* C28: when the enumeration succeeds with no codes, the build writes an
\* empty master map with the time of the build, whatever the file held,
\* puts the empty map in memory and returns it.
C28_EmptyEnumerationReplacesMap ==
    [][ (pc = "pool" /\ codes_map = <<>> /\ pc' # "pool") =>
          /\ disk_master' = [exists |-> TRUE, ts |-> now, master |-> <<>>]
          /\ mem_cache' = [some |-> TRUE, map |-> <<>>]
          /\ ret' = <<>>
      ]_vars

\* a forced build over an empty enumeration has replaced the earlier map of
\* one code, on disk and in memory; no worker ran, so 102 is in no cache
C28_Witness ==
    /\ pc # "pool" /\ lastRun.path = "built"
    /\ lastRun.diskBefore.exists /\ lastRun.diskBefore.master = EarlierMaster
    /\ disk_master.exists /\ disk_master.master = <<>> /\ disk_master.ts = lastRun.at
    /\ mem_cache.some /\ mem_cache.map = <<>>
    /\ ret = <<>>
    /\ "102" \notin DOMAIN disk_details

\* the enumerated codes the workers rejected as closed-ended
ClosedCodes == {c \in DOMAIN fut : _is_closed_scheme(SchemeTypeOf(fut[c].details))}

\* C30: when a build that enumerated codes completes, the details cache, in
\* memory and as the final save writes it, has an entry for every enumerated
\* code, the quote cache has one for every enumerated code not rejected as
\* closed-ended, and every value of the returned map is a code classified
\* active in this run, under the normalized name of that code.
C30_CompletedBuildCoversEveryCode ==
    [][ (pc = "pool" /\ codes_map # <<>> /\ pc' # "pool") =>
          /\ \A c \in CodesOf(codes_map) :
                /\ c \in DOMAIN details_cache /\ c \in DOMAIN disk_details'
                /\ c \notin ClosedCodes =>
                      c \in DOMAIN quote_cache /\ c \in DOMAIN disk_quote'
          /\ \A k \in DOMAIN ret' :
                /\ ret'[k] \in CodesOf(codes_map)
                /\ fut[ret'[k]].is_active
                /\ k = _normalize(NameOf(codes_map, ret'[k]))
      ]_vars

\* a first build over two codes has completed: 101 was rejected as
\* closed-ended and has details but no quote on disk, 102 is in the map
C30_Witness ==
    /\ pc # "pool" /\ lastRun.path = "built" /\ ~lastRun.diskBefore.exists
    /\ DOMAIN disk_details = {"101", "102"}
    /\ DOMAIN disk_quote = {"102"}
    /\ _is_closed_scheme(SchemeTypeOf(disk_details["101"]))
    /\ MapValues(ret) = {"102"}

(***************************************************************************)
(* Claims about the parent artifact                                        *)
(***************************************************************************)
\* the artifact's build timestamp is older than the TTL at the call
ArtifactStale == loadedFile.exists /\ loadedFile.readable /\ loadAt - loadedFile.ts > CACHE_TTL_SECONDS

\* C26: load_parent_reps reuses the persisted artifact only until its TTL
\* lapses: when the build timestamp is older than the TTL the
\* representatives are rebuilt, not read from the file.
C26_StaleArtifactRebuilt ==
    (loadPc = "returned" /\ ArtifactStale) => parent_reps.via = "rebuilt"

(***************************************************************************)
(* Claims about the fees and the fields left empty                         *)
(***************************************************************************)
\* C29: on a series of fewer than 2 points compute_metrics_for_code makes
\* no details and no quote call; its record has data_points 0, no dates and
\* no expense ratio, exit load or AUM, whatever the provider holds; beta and
\* tracking_error are None in every record.
C29_InsufficientSkipsFees ==
    /\ Len(nav_out) < 2 => fee_calls = NoFeeCalls
    /\ fetchPc = "insufficient" =>
          /\ Len(nav_out) < 2
          /\ record.data_points = 0
          /\ record.first_date = 0 /\ record.last_date = 0
          /\ record.expense_ratio_percent = NoneVal
          /\ record.exit_load_percent = NoneVal
          /\ record.aum = NoneVal
    /\ record # NoneVal => record.beta = NoneVal /\ record.tracking_error = NoneVal

\* one point was fetched and the provider holds fees for the code
C29_Witness ==
    /\ fetchPc = "insufficient"
    /\ Len(nav_out) = 1
    /\ fee_details = D_Fees
    /\ fetch_scheme_fees_and_aum(fee_details, fee_quote).aum # NoneVal

(***************************************************************************)
(* Specifications                                                          *)
(***************************************************************************)
InitNorm == NormInit /\ GroupIdle /\ FilterIdle /\ ClassifyIdle /\ MasterIdle /\ BatchIdle /\ RepIdle /\ FetchIdle /\ MetricsIdle /\ PoolIdle /\ SaveIdle /\ ProgressIdle /\ LoadIdle /\ FeeIdle

SpecNorm == InitNorm /\ [][NextNorm]_vars

InitGroup == GroupInit /\ NormIdle /\ FilterIdle /\ ClassifyIdle /\ MasterIdle /\ BatchIdle /\ RepIdle /\ FetchIdle /\ MetricsIdle /\ PoolIdle /\ SaveIdle /\ ProgressIdle /\ LoadIdle /\ FeeIdle

SpecGroup == InitGroup /\ [][NextGroup]_vars

InitClassify == ClassifyInit /\ NormIdle /\ GroupIdle /\ MasterIdle /\ BatchIdle /\ RepIdle /\ FetchIdle /\ MetricsIdle /\ PoolIdle /\ SaveIdle /\ ProgressIdle /\ LoadIdle /\ FeeIdle

SpecClassify == InitClassify /\ [][NextClassify]_vars

InitMaster == MasterInit /\ NormIdle /\ GroupIdle /\ ClassifyIdle /\ BatchIdle /\ RepIdle /\ FetchIdle /\ MetricsIdle /\ PoolIdle /\ SaveIdle /\ ProgressIdle /\ LoadIdle /\ FeeIdle

SpecMaster == InitMaster /\ [][NextMaster]_vars

InitBatch == BatchInit /\ NormIdle /\ GroupIdle /\ ClassifyIdle /\ MasterIdle /\ RepIdle /\ FetchIdle /\ MetricsIdle /\ PoolIdle /\ SaveIdle /\ ProgressIdle /\ LoadIdle /\ FeeIdle

SpecBatch == InitBatch /\ [][NextBatch]_vars

InitRep == RepInit /\ NormIdle /\ GroupIdle /\ ClassifyIdle /\ MasterIdle /\ BatchIdle /\ FetchIdle /\ MetricsIdle /\ PoolIdle /\ SaveIdle /\ ProgressIdle /\ LoadIdle /\ FeeIdle

SpecRep == InitRep /\ [][NextRep]_vars

InitFetch == FetchInit /\ NormIdle /\ GroupIdle /\ FilterIdle /\ ClassifyIdle /\ MasterIdle /\ BatchIdle /\ RepIdle /\ MetricsIdle /\ PoolIdle /\ SaveIdle /\ ProgressIdle /\ LoadIdle

SpecFetch == InitFetch /\ [][NextFetch]_vars

InitMetrics == MetricsInit /\ NormIdle /\ GroupIdle /\ FilterIdle /\ ClassifyIdle /\ MasterIdle /\ BatchIdle /\ RepIdle /\ FetchIdle /\ PoolIdle /\ SaveIdle /\ ProgressIdle /\ LoadIdle /\ FeeIdle

SpecMetrics == InitMetrics /\ [][NextMetrics]_vars

InitPool == PoolInit /\ NormIdle /\ GroupIdle /\ FilterIdle /\ ClassifyIdle /\ MasterIdle /\ BatchIdle /\ RepIdle /\ FetchIdle /\ MetricsIdle /\ SaveIdle /\ ProgressIdle /\ LoadIdle /\ FeeIdle

SpecPool == InitPool /\ [][NextPool]_vars

InitSave == SaveInit /\ NormIdle /\ GroupIdle /\ FilterIdle /\ ClassifyIdle /\ MasterIdle /\ BatchIdle /\ RepIdle /\ FetchIdle /\ MetricsIdle /\ PoolIdle /\ ProgressIdle /\ LoadIdle /\ FeeIdle

SpecSave == InitSave /\ [][NextSave]_vars

InitProgress == ProgressInit /\ NormIdle /\ GroupIdle /\ FilterIdle /\ ClassifyIdle /\ MasterIdle /\ BatchIdle /\ RepIdle /\ FetchIdle /\ MetricsIdle /\ PoolIdle /\ SaveIdle /\ LoadIdle /\ FeeIdle

SpecProgress == InitProgress /\ [][NextProgress]_vars

InitLoad == LoadInit /\ NormIdle /\ GroupIdle /\ FilterIdle /\ ClassifyIdle /\ MasterIdle /\ BatchIdle /\ RepIdle /\ FetchIdle /\ MetricsIdle /\ PoolIdle /\ SaveIdle /\ ProgressIdle /\ FeeIdle

SpecLoad == InitLoad /\ [][NextLoad]_vars

Init ==
    \/ InitNorm \/ InitGroup \/ InitClassify \/ InitMaster \/ InitBatch \/ InitRep
    \/ InitFetch \/ InitMetrics \/ InitPool \/ InitSave \/ InitProgress \/ InitLoad

Next ==
    \/ NextNorm \/ NextGroup \/ NextClassify \/ NextMaster \/ NextBatch \/ NextRep
    \/ NextFetch \/ NextMetrics \/ NextPool \/ NextSave \/ NextProgress \/ NextLoad

Spec == Init /\ [][Next]_vars
=============================================================================
